---- MODULE Spec2Model ----
(***************************************************************************)
(* Model of the metadata engine of metadata-electron:                      *)
(*   - MetadataService (src/src/main/services/MetadataService.ts):         *)
(*     readMetadata, writeMetadata and their helpers;                      *)
(*   - MirrorService and FilenameParser (src/unnamed/part_001);            *)
(*   - the renderer's edit of a record (TableRenderer.tsx) and the mirror  *)
(*     request of MirrorModal.tsx.                                         *)
(*                                                                         *)
(* Strings are sequences of one-character strings, so that trimming,       *)
(* regular expressions and the XML value conversion are computed on the    *)
(* characters.  A JavaScript value is a record [k, v]: k is its type and v *)
(* the characters of String(value).                                        *)
(***************************************************************************)
EXTENDS Integers, Sequences, FiniteSets, TLC

(* ---------------------------------------------------------------------- *)
(* Characters and strings                                                  *)
(* ---------------------------------------------------------------------- *)

LowerCase == <<"a","b","c","d","e","f","g","h","i","j","k","l","m",
               "n","o","p","q","r","s","t","u","v","w","x","y","z">>

UpperCase == <<"A","B","C","D","E","F","G","H","I","J","K","L","M",
               "N","O","P","Q","R","S","T","U","V","W","X","Y","Z">>

IsDigit(c) == c \in {"0","1","2","3","4","5","6","7","8","9"}

\* \s of the regular expressions and the white space of String.trim
IsSpace(c) == c \in {" ", "\t", "\n"}

IsLetter(c) == \E i \in DOMAIN LowerCase : c = LowerCase[i] \/ c = UpperCase[i]

\* the case folding of the /i flag
ToUpper(c) ==
    IF \E i \in DOMAIN LowerCase : c = LowerCase[i]
    THEN UpperCase[CHOOSE i \in DOMAIN LowerCase : c = LowerCase[i]]
    ELSE c

RECURSIVE TrimLeft(_)
TrimLeft(s) == IF s # <<>> /\ IsSpace(Head(s)) THEN TrimLeft(Tail(s)) ELSE s

RECURSIVE TrimRight(_)
TrimRight(s) ==
    IF s # <<>> /\ IsSpace(s[Len(s)])
    THEN TrimRight(SubSeq(s, 1, Len(s) - 1))
    ELSE s

\* String.prototype.trim
Trim(s) == TrimRight(TrimLeft(s))

\* the index of the first occurrence of character c in s, 0 when there is none
IndexOf(s, c) ==
    IF \E i \in DOMAIN s : s[i] = c
    THEN CHOOSE i \in DOMAIN s : s[i] = c /\ \A j \in 1..(i - 1) : s[j] # c
    ELSE 0

\* String.prototype.split(c): the pieces of s between the occurrences of c
RECURSIVE Split(_, _)
Split(s, c) ==
    LET i == IndexOf(s, c)
    IN  IF i = 0 THEN <<s>>
        ELSE <<SubSeq(s, 1, i - 1)>> \o Split(SubSeq(s, i + 1, Len(s)), c)

\* Array.prototype.join(c)
RECURSIVE Join(_, _)
Join(parts, c) ==
    IF parts = <<>> THEN <<>>
    ELSE IF Len(parts) = 1 THEN parts[1]
    ELSE parts[1] \o <<c>> \o Join(Tail(parts), c)

\* s1 and s2 are equal up to the case of their letters
EqualsIgnoreCase(s1, s2) ==
    /\ Len(s1) = Len(s2)
    /\ \A i \in DOMAIN s1 : ToUpper(s1[i]) = ToUpper(s2[i])

(* ---------------------------------------------------------------------- *)
(* JavaScript values                                                       *)
(* ---------------------------------------------------------------------- *)

TrueText == <<"t","r","u","e">>
FalseText == <<"f","a","l","s","e">>

Undefined == [k |-> "undefined", v |-> <<>>]
Str(s) == [k |-> "string", v |-> s]
Num(s) == [k |-> "number", v |-> s]
Bool(b) == [k |-> "boolean", v |-> IF b THEN TrueText ELSE FalseText]

\* the truthiness the operators ||, ! and ?: test
Truthy(x) ==
    CASE x.k = "string" -> x.v # <<>>
      [] x.k = "number" -> x.v # <<"0">>
      [] x.k = "boolean" -> x.v = TrueText
      [] OTHER -> FALSE

\* a || b
Or(a, b) == IF Truthy(a) THEN a ELSE b

(* ---------------------------------------------------------------------- *)
(* The structured-metadata (iXML) chunk and fast-xml-parser                *)
(*                                                                         *)
(* The chunk's text is modelled by the leaves of its BWFXML element: a     *)
(* function from tag names to the characters between the tags.  The parsed *)
(* tree is a function from tag names to JavaScript values.                 *)
(* ---------------------------------------------------------------------- *)

\* the decimal forms strnum's numRegex accepts that the model's alphabet
\* can spell: digits with at most one '.', which digits must follow
IsNumberText(t) ==
    /\ t # <<>>
    /\ \A i \in DOMAIN t : IsDigit(t[i]) \/ t[i] = "."
    /\ Cardinality({i \in DOMAIN t : t[i] = "."}) <= 1
    /\ t[Len(t)] # "."

RECURSIVE StripLeadingZeros(_)
StripLeadingZeros(s) ==
    IF s # <<>> /\ Head(s) = "0" THEN StripLeadingZeros(Tail(s)) ELSE s

RECURSIVE StripTrailingZeros(_)
StripTrailingZeros(s) ==
    IF s # <<>> /\ s[Len(s)] = "0"
    THEN StripTrailingZeros(SubSeq(s, 1, Len(s) - 1))
    ELSE s

\* String(Number(t)) for a decimal text t: leading zeros of the integer part
\* and trailing zeros of the fraction are gone
NumberToString(t) ==
    LET dot == IndexOf(t, ".")
        int == IF dot = 0 THEN t ELSE SubSeq(t, 1, dot - 1)
        frac == IF dot = 0 THEN <<>> ELSE SubSeq(t, dot + 1, Len(t))
        int2 == IF StripLeadingZeros(int) = <<>> THEN <<"0">>
                ELSE StripLeadingZeros(int)
        frac2 == StripTrailingZeros(frac)
    IN  IF frac2 = <<>> THEN int2 ELSE int2 \o <<".">> \o frac2

\* An XMLParser built with only ignoreAttributes set keeps the defaults
\* trimValues: true, parseTagValue: true and numberParseOptions.leadingZeros:
\* true: the text of a tag is trimmed, "true" and "false" become booleans,
\* and a decimal text becomes a number.
ParseValue(text) ==
    LET t == Trim(text)
    IN  IF t = TrueText THEN Bool(TRUE)
        ELSE IF t = FalseText THEN Bool(FALSE)
        ELSE IF IsNumberText(t) THEN Num(NumberToString(t))
        ELSE Str(t)

\* xmlParser.parse(ixmlString).BWFXML
XmlParse(xml) == [key \in DOMAIN xml |-> ParseValue(xml[key])]

\* xmlBuilder.build(tree): every defined leaf is written as String(value)
XmlBuild(tree) ==
    [key \in {x \in DOMAIN tree : tree[x].k # "undefined"} |-> tree[key].v]

\* obj.name for an object given as a function from property names to values
Prop(obj, name) == IF name \in DOMAIN obj THEN obj[name] ELSE Undefined

\* the object {}
EmptyObject == [x \in {} |-> Undefined]

\* the value extractIXMLData returns: null, or the parsed document
NullIXML == [isNull |-> TRUE, BWFXML |-> EmptyObject]
IXMLDoc(tree) == [isNull |-> FALSE, BWFXML |-> tree]

\* ixml?.BWFXML?.KEY
Get(ixml, key) == IF ixml.isNull THEN Undefined ELSE Prop(ixml.BWFXML, key)

\* obj.KEY = value
Put(tree, key, value) ==
    [x \in DOMAIN tree \cup {key} |-> IF x = key THEN value ELSE tree[x]]

(* ---------------------------------------------------------------------- *)
(* MetadataService.parseFilename                                           *)
(* ---------------------------------------------------------------------- *)

WavExt == <<".","w","a","v">>

NoFilenameData ==
    [show |-> Undefined, category |-> Undefined, scene |-> Undefined,
     slate |-> Undefined, take |-> Undefined, subcategory |-> Undefined]

\* the fields of a name the pattern matched with these groups
FilenameFields(show, category, sceneNumber, slate, takeText) ==
    [show |-> Str(show),
     category |-> Str(category),
     scene |-> Str(sceneNumber),
     slate |-> Str(slate),
     take |-> Str(takeText),
     subcategory |-> Str(Split(sceneNumber, ".")[1])]

\* ([\d.]+)([A-Z]?)_(\d+) on what follows "Sc" and on the take
MatchSceneTake(show, category, sceneNumber, slate, takeText) ==
    IF /\ sceneNumber # <<>>
       /\ \A i \in DOMAIN sceneNumber : IsDigit(sceneNumber[i]) \/ sceneNumber[i] = "."
       /\ \A i \in DOMAIN takeText : IsDigit(takeText[i])
    THEN FilenameFields(show, category, sceneNumber, slate, takeText)
    ELSE NoFilenameData

\* rest is what follows "Sc" in the third piece: its last character is the
\* slate when it is a letter
MatchSlate(show, category, rest, takeText) ==
    IF rest # <<>> /\ IsLetter(rest[Len(rest)])
    THEN MatchSceneTake(show, category, SubSeq(rest, 1, Len(rest) - 1),
                        <<rest[Len(rest)]>>, takeText)
    ELSE MatchSceneTake(show, category, rest, <<>>, takeText)

\* the four pieces of a name: show, category, Sc<scene><slate>, <take>.wav
MatchPieces(show, category, t3, t4) ==
    IF /\ show # <<>>
       /\ category # <<>>
       /\ Len(t3) >= 3
       /\ ToUpper(t3[1]) = "S"
       /\ ToUpper(t3[2]) = "C"
       /\ Len(t4) > Len(WavExt)
       /\ EqualsIgnoreCase(SubSeq(t4, Len(t4) - Len(WavExt) + 1, Len(t4)), WavExt)
    THEN MatchSlate(show, category, SubSeq(t3, 3, Len(t3)),
                    SubSeq(t4, 1, Len(t4) - Len(WavExt)))
    ELSE NoFilenameData

MatchTokens(tokens) ==
    IF Len(tokens) = 4
    THEN MatchPieces(tokens[1], tokens[2], tokens[3], tokens[4])
    ELSE NoFilenameData

\* /^([^_]+)_([^_]+)_Sc([\d.]+)([A-Z]?)_(\d+)\.wav$/i : no group holds an
\* underscore, so a matching name has exactly four '_'-separated pieces
parseFilename(fileName) == MatchTokens(Split(fileName, "_"))

(* ---------------------------------------------------------------------- *)
(* The scene/take pattern of readMetadata                                  *)
(* /S(?:C|CNE)?[_\s]*(\S+?)[_\s]*T(?:K|AKE)?[_\s]*(\S+)/i                  *)
(* ---------------------------------------------------------------------- *)

IsSep(c) == c = "_" \/ IsSpace(c)

\* how many characters from position p on satisfy the class
RECURSIVE SepRun(_, _)
SepRun(d, p) == IF p <= Len(d) /\ IsSep(d[p]) THEN 1 + SepRun(d, p + 1) ELSE 0

RECURSIVE NonSpaceRun(_, _)
NonSpaceRun(d, p) ==
    IF p <= Len(d) /\ ~IsSpace(d[p]) THEN 1 + NonSpaceRun(d, p + 1) ELSE 0

\* the alternatives of (?:C|CNE)? and (?:K|AKE)? in the order the engine
\* tries them: the first, the second, then nothing
Alternatives(first, second) == <<first, second, <<>>>>

MatchesAt(d, p, word) ==
    /\ p + Len(word) - 1 <= Len(d)
    /\ \A i \in DOMAIN word : ToUpper(d[p + i - 1]) = word[i]

AltLen(alts, a) == Len(alts[a])

Alt1 == Alternatives(<<"C">>, <<"C","N","E">>)
Alt2 == Alternatives(<<"K">>, <<"A","K","E">>)

\* Every way S(?:C|CNE)?[_\s]*(\S+?) matches in d: h.i is where S is, h.a1
\* the alternative taken, h.s1 the length of the separator run and h.c1 the
\* length of the first capture.
SceneHeads(d) ==
    UNION {UNION {UNION {
        {[i |-> i, a1 |-> a1, s1 |-> s1, c1 |-> c1] :
            c1 \in 1..NonSpaceRun(d, i + 1 + AltLen(Alt1, a1) + s1)} :
          s1 \in 0..SepRun(d, i + 1 + AltLen(Alt1, a1))} :
          a1 \in {a \in DOMAIN Alt1 : MatchesAt(d, i + 1, Alt1[a])}} :
          i \in {j \in DOMAIN d : ToUpper(d[j]) = "S"}}

\* the position after the first capture of head h
HeadEnd(h) == h.i + 1 + AltLen(Alt1, h.a1) + h.s1 + h.c1

\* Every way [_\s]*T(?:K|AKE)?[_\s]*(\S+) matches d at position q.  The last
\* capture is greedy and ends the pattern: it is the whole run of non-space
\* characters, which must not be empty.
TakeTails(d, q) ==
    UNION {UNION {
        {[s2 |-> s2, a2 |-> a2, s3 |-> s3] :
            s3 \in {n \in 0..SepRun(d, q + s2 + 1 + AltLen(Alt2, a2)) :
                       NonSpaceRun(d, q + s2 + 1 + AltLen(Alt2, a2) + n) >= 1}} :
          a2 \in {a \in DOMAIN Alt2 : MatchesAt(d, q + s2 + 1, Alt2[a])}} :
          s2 \in {n \in 0..SepRun(d, q) : MatchesAt(d, q + n, <<"T">>)}}

\* the position of the second capture
TailStart(q, t) == q + t.s2 + 1 + AltLen(Alt2, t.a2) + t.s3

\* tuple k1 comes before k2 in the lexicographic order
LexLess(k1, k2) ==
    \E n \in DOMAIN k1 :
        /\ \A j \in 1..(n - 1) : k1[j] = k2[j]
        /\ k1[n] < k2[n]

\* The order in which the backtracking engine tries the ways to match:
\* leftmost start, earlier alternative, longer greedy run, shorter lazy
\* capture.
HeadKey(h) == <<h.i, h.a1, 0 - h.s1, h.c1>>
TailKey(t) == <<0 - t.s2, t.a2, 0 - t.s3>>

\* the way the engine finds first among the ways of the set
FirstHead(heads) ==
    CHOOSE x \in heads : \A u \in heads \ {x} : LexLess(HeadKey(x), HeadKey(u))

FirstTail(tails) ==
    CHOOSE x \in tails : \A u \in tails \ {x} : LexLess(TailKey(x), TailKey(u))

\* the captures of the match with head h whose second capture starts at p2
Captures(d, h, p2) ==
    [matched |-> TRUE,
     scene |-> SubSeq(d, HeadEnd(h) - h.c1, HeadEnd(h) - 1),
     take |-> SubSeq(d, p2, p2 + NonSpaceRun(d, p2) - 1)]

MatchFrom(d, h) ==
    Captures(d, h, TailStart(HeadEnd(h), FirstTail(TakeTails(d, HeadEnd(h)))))

MatchAmong(d, heads) ==
    IF heads = {} THEN [matched |-> FALSE, scene |-> <<>>, take |-> <<>>]
    ELSE MatchFrom(d, FirstHead(heads))

\* bwf.Description.match(...): null (matched FALSE), or the two captures
SceneTakeMatch(d) ==
    MatchAmong(d, {h \in SceneHeads(d) : TakeTails(d, HeadEnd(h)) # {}})

(* ---------------------------------------------------------------------- *)
(* Paths and files                                                         *)
(*                                                                         *)
(* A path is the sequence of its segments, each a text.  A file's bytes   *)
(* are modelled by what wavefile reads from them: the bext object, the     *)
(* iXML object and the audio; kind "garbage" is a byte string fromBuffer   *)
(* rejects (a truncated file).                                             *)
(* ---------------------------------------------------------------------- *)

BackupSuffix == <<".","b","a","c","k","u","p">>

\* a backup path with another suffix
BackupPathBak(filePath) ==
    SubSeq(filePath, 1, Len(filePath) - 1) \o <<filePath[Len(filePath)] \o <<".","b","a","k">>>>

\* filePath + '.backup'
BackupPath(filePath) ==
    SubSeq(filePath, 1, Len(filePath) - 1) \o <<filePath[Len(filePath)] \o BackupSuffix>>

\* path.basename
BaseName(filePath) == filePath[Len(filePath)]

\* path.dirname
DirName(filePath) == SubSeq(filePath, 1, Len(filePath) - 1)

\* path.extname: from the last '.' of the base name, unless it starts the name
ExtName(filePath) ==
    LET name == BaseName(filePath)
        dots == {i \in DOMAIN name : name[i] = "."}
        last == CHOOSE i \in dots : \A j \in dots : j <= i
    IN  IF dots = {} \/ last = 1 THEN <<>> ELSE SubSeq(name, last, Len(name))

\* the bext object of a WaveFile that read no bext chunk
DefaultBext ==
    [p \in {"chunkId", "description", "originator", "originatorReference",
            "originationDate", "originationTime", "timeReferenceLow",
            "timeReferenceHigh", "codingHistory"} |->
        IF p \in {"timeReferenceLow", "timeReferenceHigh"} THEN Num(<<"0">>)
        ELSE Str(<<>>)]

\* the iXML object of a WaveFile: chunkId is "" when the file has no such
\* chunk; wellFormed tells whether xmlParser.parse accepts the text
NoIXMLChunk == [chunkId |-> "", wellFormed |-> TRUE, value |-> EmptyObject]
IXMLChunk(xml) == [chunkId |-> "iXML", wellFormed |-> TRUE, value |-> xml]
CorruptIXMLChunk == [chunkId |-> "iXML", wellFormed |-> FALSE, value |-> EmptyObject]

WavBytes(bext, ixml, audio) ==
    [kind |-> "wav", bext |-> bext, iXML |-> ixml, audio |-> audio]

Garbage == [kind |-> "garbage", bext |-> DefaultBext, iXML |-> NoIXMLChunk, audio |-> 0]

\* wav.toBuffer(): the bext chunk is written when this.bext.chunkId is set,
\* the iXML chunk when this.iXML.chunkId is set
toBuffer(wav) ==
    WavBytes(IF Truthy(Prop(wav.bext, "chunkId"))
                THEN [p \in DOMAIN DefaultBext |-> Prop(wav.bext, p)]
                ELSE DefaultBext,
             IF wav.iXML.chunkId # "" THEN wav.iXML ELSE NoIXMLChunk,
             wav.audio)

(* ---------------------------------------------------------------------- *)
(* MetadataService.readMetadata                                            *)
(* ---------------------------------------------------------------------- *)

extractBwfData(wav) ==
    LET bext == wav.bext
    IN  [p \in {"Description", "Originator", "OriginatorReference",
                "OriginationDate", "OriginationTime", "TimeReferenceLow",
                "TimeReferenceHigh", "CodingHistory"} |->
            CASE p = "Description" -> Or(bext.description, Str(<<>>))
              [] p = "Originator" -> Or(bext.originator, Str(<<>>))
              [] p = "OriginatorReference" -> Or(bext.originatorReference, Str(<<>>))
              [] p = "OriginationDate" -> Or(bext.originationDate, Str(<<>>))
              [] p = "OriginationTime" -> Or(bext.originationTime, Str(<<>>))
              [] p = "TimeReferenceLow" -> Or(bext.timeReferenceLow, Num(<<"0">>))
              [] p = "TimeReferenceHigh" -> Or(bext.timeReferenceHigh, Num(<<"0">>))
              [] p = "CodingHistory" -> Or(bext.codingHistory, Str(<<>>))]

extractIXMLData(wav) ==
    IF wav.iXML.chunkId # "" /\ wav.iXML.wellFormed
    THEN IXMLDoc(XmlParse(wav.iXML.value))
    ELSE NullIXML

\* the pattern's captures assigned whether or not scene and take have a value
RecoverAlways(scene0, take0, description, sceneTakeMatch) ==
    IF Truthy(description) /\ sceneTakeMatch.matched
    THEN [scene |-> Str(sceneTakeMatch.scene), take |-> Str(sceneTakeMatch.take)]
    ELSE [scene |-> scene0, take |-> take0]

\* lines 42-51: the scene/take pattern fills what is still empty
Recover(scene0, take0, description, sceneTakeMatch) ==
    IF (~Truthy(scene0) \/ ~Truthy(take0)) /\ Truthy(description)
       /\ sceneTakeMatch.matched
    THEN [scene |-> Or(scene0, Str(sceneTakeMatch.scene)),
          take |-> Or(take0, Str(sceneTakeMatch.take))]
    ELSE [scene |-> scene0, take |-> take0]

\* lines 31-70: the record, from what the chunks and the file name gave
ResolveFields(filePath, fileName, bwf, ixml, filenameData, sceneTake) ==
    [filePath |-> filePath,
     filename |-> fileName,
     show |-> Or(Or(Or(Get(ixml, "PROJECT"), filenameData.show), bwf.Originator),
                 Str(<<>>)),
     scene |-> sceneTake.scene,
     take |-> sceneTake.take,
     slate |-> Or(Or(Get(ixml, "SLATE"), filenameData.slate), Str(<<>>)),
     category |-> Or(Or(Get(ixml, "CATEGORY"), filenameData.category), Str(<<>>)),
     subcategory |->
         Or(Or(Get(ixml, "SUBCATEGORY"), filenameData.subcategory), Str(<<>>)),
     ixmlNote |-> Or(Or(Get(ixml, "NOTE"), bwf.Description), Str(<<>>)),
     ixmlWildtrack |->
         Str(IF Truthy(Get(ixml, "WILD_TRACK")) THEN TrueText ELSE FalseText),
     ixmlCircled |->
         Str(IF Truthy(Get(ixml, "CIRCLED")) THEN TrueText ELSE FalseText),
     bwf |-> bwf,
     iXML |-> ixml]

ResolveSources(filePath, fileName, bwf, ixml, filenameData) ==
    ResolveFields(filePath, fileName, bwf, ixml, filenameData,
                  Recover(Or(Or(Get(ixml, "SCENE"), filenameData.scene), Str(<<>>)),
                          Or(Or(Get(ixml, "TAKE"), filenameData.take), Str(<<>>)),
                          bwf.Description,
                          SceneTakeMatch(bwf.Description.v)))

\* lines 26-70 of readMetadata: the record resolved from a parsed file
Resolve(filePath, wav) ==
    ResolveSources(filePath, BaseName(filePath), extractBwfData(wav),
                   extractIXMLData(wav), parseFilename(BaseName(filePath)))

NoRecord ==
    [filePath |-> <<>>, filename |-> <<>>, show |-> Undefined, scene |-> Undefined,
     take |-> Undefined, slate |-> Undefined, category |-> Undefined,
     subcategory |-> Undefined, ixmlNote |-> Undefined, ixmlWildtrack |-> Undefined,
     ixmlCircled |-> Undefined, bwf |-> EmptyObject, iXML |-> NullIXML]

\* readMetadata were extractIXMLData to let the parser's exception through:
\* the catch of lines 71-75 wraps it
readMetadataNoAbsorb(fs, filePath, fault) ==
    IF filePath \notin DOMAIN fs
    THEN [error |-> "File not found", record |-> NoRecord]
    ELSE IF ~EqualsIgnoreCase(ExtName(filePath), WavExt)
    THEN [error |-> "Unsupported file format", record |-> NoRecord]
    ELSE IF fault = "read" \/ fs[filePath].kind # "wav" \/ ~fs[filePath].iXML.wellFormed
    THEN [error |-> "Failed to read metadata", record |-> NoRecord]
    ELSE [error |-> "none", record |-> Resolve(filePath, fs[filePath])]

\* readMetadata were it to read the bytes before it looks at the path
readMetadataReadFirst(fs, filePath, fault) ==
    IF fault = "read"
    THEN [error |-> "Failed to read metadata", record |-> NoRecord]
    ELSE IF filePath \notin DOMAIN fs
    THEN [error |-> "File not found", record |-> NoRecord]
    ELSE IF ~EqualsIgnoreCase(ExtName(filePath), WavExt)
    THEN [error |-> "Unsupported file format", record |-> NoRecord]
    ELSE IF fs[filePath].kind # "wav"
    THEN [error |-> "Failed to read metadata", record |-> NoRecord]
    ELSE [error |-> "none", record |-> Resolve(filePath, fs[filePath])]

\* readMetadata on the file system fs; fault "read" makes readFileSync throw.
\* The result is the record, or the failure thrown.
readMetadata(fs, filePath, fault) ==
    IF filePath \notin DOMAIN fs
    THEN [error |-> "File not found", record |-> NoRecord]
    ELSE IF ~EqualsIgnoreCase(ExtName(filePath), WavExt)
    THEN [error |-> "Unsupported file format", record |-> NoRecord]
    ELSE IF fault = "read" \/ fs[filePath].kind # "wav"
    THEN [error |-> "Failed to read metadata", record |-> NoRecord]
    ELSE [error |-> "none", record |-> Resolve(filePath, fs[filePath])]

(* ---------------------------------------------------------------------- *)
(* MetadataService.writeMetadata                                           *)
(* ---------------------------------------------------------------------- *)

\* updateBwfData: the record's bwf object after lines 178-181.  Line 183
\* then makes it the WaveFile's bext object.
updateBwfData(metadata) ==
    [metadata EXCEPT !.bwf = Put(Put(metadata.bwf, "Description", metadata.ixmlNote),
                                 "Originator", metadata.show)]

\* updateIXMLData: the record's iXML object after lines 187-196
updateIXMLData(metadata) ==
    LET tree0 == IF metadata.iXML.isNull THEN EmptyObject ELSE metadata.iXML.BWFXML
        tree1 == Put(tree0, "PROJECT", metadata.show)
        tree2 == Put(tree1, "SCENE", metadata.scene)
        tree3 == Put(tree2, "TAKE", metadata.take)
        tree4 == Put(tree3, "SLATE", metadata.slate)
        tree5 == Put(tree4, "NOTE", metadata.ixmlNote)
        tree6 == Put(tree5, "CIRCLED", Bool(metadata.ixmlCircled = Str(TrueText)))
    IN  [metadata EXCEPT !.iXML = IXMLDoc(tree6)]

\* The faults the environment can inject into one writeMetadata call: the
\* backup copy fails; readFileSync fails; building the XML or the buffer
\* fails; writeFileSync fails before it opened the file ("open") or after it
\* truncated it ("write").  fromBuffer fails by itself on bytes that are no
\* WAV file.
WriteFaults == {"none", "backup", "read", "serialize", "open", "write"}

\* lines 90-91: the failure, or the file written, after the record's bwf
\* and iXML objects were updated and set on the WaveFile
WriteBuffer(fs, filePath, metadata, outputBuffer, fault) ==
    IF fault \in {"serialize", "open"}
    THEN [threw |-> TRUE, fs |-> fs, metadata |-> metadata]
    ELSE IF fault = "write"
    THEN [threw |-> TRUE, fs |-> [fs EXCEPT ![filePath] = Garbage],
          metadata |-> metadata]
    ELSE [threw |-> FALSE, fs |-> [fs EXCEPT ![filePath] = outputBuffer],
          metadata |-> metadata]

\* lines 87-90: wav.bext = metadata.bwf, wav.setiXML(build(metadata.iXML)),
\* wav.toBuffer(), for the record as the two updates left it
WriteUpdated(fs, filePath, metadata, wav, fault) ==
    WriteBuffer(fs, filePath, metadata,
                toBuffer([wav EXCEPT !.bext = metadata.bwf,
                                     !.iXML = IXMLChunk(XmlBuild(metadata.iXML.BWFXML))]),
                fault)

\* lines 83-91: the try block.  The result tells whether it threw and what
\* the file system and the caller's record are when it ends.
WriteTry(fs, filePath, metadata, fault) ==
    IF fault = "read" \/ fs[filePath].kind # "wav"
    THEN [threw |-> TRUE, fs |-> fs, metadata |-> metadata]
    ELSE WriteUpdated(fs, filePath, updateIXMLData(updateBwfData(metadata)),
                      fs[filePath], fault)

\* fs.copyFileSync(from, to) on an existing file
CopyFile(fs, from, to) ==
    [x \in DOMAIN fs \cup {to} |-> IF x = to THEN fs[from] ELSE fs[x]]

\* a catch block that rethrows without restoring
WriteCatchNoRestore(fs, filePath) == fs

\* lines 94-97: the catch block restores the file from the backup
WriteCatch(fs, filePath) == CopyFile(fs, BackupPath(filePath), filePath)

\* how the call ends, given how its try block ended
WriteEnd(try, filePath) ==
    IF try.threw THEN [try EXCEPT !.fs = WriteCatch(try.fs, filePath)] ELSE try

\* writeMetadata(filePath, metadata) on the file system fs under a fault.
\* The function has no await: a call runs to its end without interleaving.
writeMetadata(fs, filePath, metadata, fault) ==
    IF filePath \notin DOMAIN fs \/ fault = "backup"
    THEN [threw |-> TRUE, fs |-> fs, metadata |-> metadata]
    ELSE WriteEnd(WriteTry(CopyFile(fs, filePath, BackupPath(filePath)),
                           filePath, metadata, fault),
                  filePath)

(* ---------------------------------------------------------------------- *)
(* MirrorService                                                           *)
(* ---------------------------------------------------------------------- *)

\* the length sanitizeFolderName cuts a folder name to
MaxFolderName == 100

\* the characters of /[<>:"\/\\|?*]/
IsInvalidChar(c) == c \in {"<", ">", ":", "\"", "/", "\\", "|", "?", "*"}

\* where the next match of /\s+/ starts in s
FirstSpace(s) == CHOOSE i \in DOMAIN s : IsSpace(s[i]) /\ \A j \in 1..(i - 1) : ~IsSpace(s[j])

\* a replacement of every white-space character by its own '_'
CollapseEach(s) == [i \in DOMAIN s |-> IF IsSpace(s[i]) THEN "_" ELSE s[i]]

\* .replace(/\s+/g, '_'): every run of white space becomes one '_'
RECURSIVE CollapseSpaces(_)
CollapseSpaces(s) ==
    IF \A i \in DOMAIN s : ~IsSpace(s[i]) THEN s
    ELSE SubSeq(s, 1, FirstSpace(s) - 1) \o <<"_">>
             \o CollapseSpaces(TrimLeft(SubSeq(s, FirstSpace(s), Len(s))))

sanitizeFolderName(name) ==
    LET replaced == [i \in DOMAIN name |-> IF IsInvalidChar(name[i]) THEN "_" ELSE name[i]]
        collapsed == CollapseSpaces(replaced)
    IN  SubSeq(collapsed, 1, IF Len(collapsed) < MaxFolderName
                             THEN Len(collapsed) ELSE MaxFolderName)

\* getFieldValue: value && value.trim() !== '' ? value.trim() : undefined.
\* Only a string has a trim method: on a truthy number or boolean the call
\* throws a TypeError.
getFieldValue(file, field) ==
    LET value == file[field]
    IN  IF ~Truthy(value) THEN [threw |-> FALSE, value |-> Undefined]
        ELSE IF value.k # "string" THEN [threw |-> TRUE, value |-> Undefined]
        ELSE IF Trim(value.v) # <<>> THEN [threw |-> FALSE, value |-> Str(Trim(value.v))]
        ELSE [threw |-> FALSE, value |-> Undefined]

\* path.join(dir, name) for a name without separator: the result is
\* normalized, so "." adds nothing and ".." removes the last segment
PathJoin(dir, name) ==
    IF name = <<".">> \/ name = <<>> THEN dir
    ELSE IF name = <<".", ".">>
    THEN (IF dir = <<>> THEN dir ELSE SubSeq(dir, 1, Len(dir) - 1))
    ELSE Append(dir, name)

\* [...levels].sort((a, b) => a.order - b.order): a stable sort
RECURSIVE SortLevels(_)
SortLevels(levels) ==
    IF levels = <<>> THEN <<>>
    ELSE LET rest == SortLevels(SubSeq(levels, 1, Len(levels) - 1))
             last == levels[Len(levels)]
             k == Cardinality({i \in DOMAIN rest : rest[i].order <= last.order})
         IN  SubSeq(rest, 1, k) \o <<last>> \o SubSeq(rest, k + 1, Len(rest))

MiscName == <<"M","i","s","c">>

\* the folders of the sorted levels, joined to currentPath one by one
RECURSIVE JoinLevels(_, _, _)
JoinLevels(currentPath, file, sortedLevels) ==
    IF sortedLevels = <<>> THEN [threw |-> FALSE, path |-> currentPath]
    ELSE LET fieldValue == getFieldValue(file, Head(sortedLevels).field)
             folderName == sanitizeFolderName(Or(fieldValue.value, Str(MiscName)).v)
         IN  IF fieldValue.threw THEN [threw |-> TRUE, path |-> currentPath]
             ELSE JoinLevels(PathJoin(currentPath, folderName), file, Tail(sortedLevels))

\* line 155: the file name joined to the folders
JoinName(folders, filename) ==
    IF folders.threw THEN folders
    ELSE [threw |-> FALSE, path |-> PathJoin(folders.path, filename)]

\* buildDestinationPath: the path, or threw when getFieldValue threw
buildDestinationPath(file, config) ==
    JoinName(JoinLevels(config.destinationPath, file, SortLevels(config.organizeLevels)),
             file.filename)

\* an existence check that never finds the path
fileExistsNever(fs, dirs, path) == FALSE

\* fileExists: fs.promises.access succeeds on a file and on a directory
fileExists(fs, dirs, path) == path \in DOMAIN fs \/ path \in dirs

\* the directories mkdir(dirPath, {recursive: true}) leaves: dirPath and the
\* directories above it
Ancestors(dirPath) == {SubSeq(dirPath, 1, n) : n \in 0..Len(dirPath)}

\* ensureDirectoryExists: mkdir fails when a file is in the way
ensureDirectoryExists(fs, dirs, dirPath, fault) ==
    IF fault = "mkdir" \/ Ancestors(dirPath) \cap DOMAIN fs # {}
    THEN [threw |-> TRUE, dirs |-> dirs]
    ELSE [threw |-> FALSE, dirs |-> dirs \cup Ancestors(dirPath)]

NewResult == [success |-> TRUE, copiedFiles |-> 0, errors |-> <<>>, conflicts |-> <<>>]

\* a processFile that counts the record before it writes the record back
ProcessWrittenCounted(dirs, result, wr) ==
    [threw |-> wr.threw, fs |-> wr.fs, dirs |-> dirs,
     result |-> [result EXCEPT !.copiedFiles = @ + 1], file |-> wr.metadata]

\* lines 126-129: how processFile ends, given how writeMetadata ended
ProcessWritten(dirs, result, wr) ==
    [threw |-> wr.threw, fs |-> wr.fs, dirs |-> dirs,
     result |-> IF wr.threw THEN result ELSE [result EXCEPT !.copiedFiles = @ + 1],
     file |-> wr.metadata]

\* a processFile that copies the bytes and does not write the record
ProcessCopyOnly(fs, dirs, file, destinationPath, result, fault) ==
    IF fault = "copy" \/ file.filePath \notin DOMAIN fs
    THEN [threw |-> TRUE, fs |-> fs, dirs |-> dirs, result |-> result, file |-> file]
    ELSE [threw |-> FALSE, fs |-> CopyFile(fs, file.filePath, destinationPath),
          dirs |-> dirs, result |-> [result EXCEPT !.copiedFiles = @ + 1], file |-> file]

\* lines 123-129: copyFile, then writeMetadata on the copy
ProcessCopy(fs, dirs, file, destinationPath, result, fault) ==
    IF fault = "copy" \/ file.filePath \notin DOMAIN fs
    THEN [threw |-> TRUE, fs |-> fs, dirs |-> dirs, result |-> result, file |-> file]
    ELSE ProcessWritten(dirs, result,
                        writeMetadata(CopyFile(fs, file.filePath, destinationPath),
                                      destinationPath, file,
                                      IF fault \in WriteFaults THEN fault ELSE "none"))

\* lines 119-129: the directory is made, then the file copied
ProcessMade(fs, dirs, file, destinationPath, result, fault, mk) ==
    IF mk.threw
    THEN [threw |-> TRUE, fs |-> fs, dirs |-> dirs, result |-> result, file |-> file]
    ELSE ProcessCopy(fs, mk.dirs, file, destinationPath, result, fault)

\* lines 108-129: processFile once the destination path is built
ProcessAt(fs, dirs, file, destinationPath, result, fault) ==
    IF fileExists(fs, dirs, destinationPath)
    THEN [threw |-> FALSE, fs |-> fs, dirs |-> dirs,
          result |-> [result EXCEPT !.conflicts =
                                        Append(@, [sourcePath |-> file.filePath,
                                                   destinationPath |-> destinationPath,
                                                   action |-> "skip"])],
          file |-> file]
    ELSE ProcessMade(fs, dirs, file, destinationPath, result, fault,
                     ensureDirectoryExists(fs, dirs, DirName(destinationPath), fault))

ProcessBuilt(fs, dirs, file, destination, result, fault) ==
    IF destination.threw
    THEN [threw |-> TRUE, fs |-> fs, dirs |-> dirs, result |-> result, file |-> file]
    ELSE ProcessAt(fs, dirs, file, destination.path, result, fault)

\* processFile(file, config, result) on the file system (fs, dirs) under a
\* fault: whether it threw, the file system, the result and the record (which
\* writeMetadata mutates) afterwards
processFile(fs, dirs, file, config, result, fault) ==
    ProcessBuilt(fs, dirs, file, buildDestinationPath(file, config), result, fault)

\* lines 45-55: the catch inside the loop
FileCatch(r, file) ==
    IF r.threw
    THEN [r EXCEPT !.result.errors = Append(@, [filePath |-> file.filePath]),
                   !.result.success = FALSE]
    ELSE r

\* what a turn of the loop leaves, and whether a failure escaped from it
Turn(r, escaped) == [step |-> r, escaped |-> escaped]

\* a loop body without the try/catch of lines 43-56: what processFile throws
\* escapes from the loop
MirrorOneNoCatch(fs, dirs, file, config, result, fault) ==
    Turn(processFile(fs, dirs, file, config, result, fault),
         processFile(fs, dirs, file, config, result, fault).threw)

\* lines 42-56 of mirrorFiles: one turn of the loop over filesToProcess.
\* escaped tells whether a failure leaves the loop for the catch of line 62.
MirrorOne(fs, dirs, file, config, result, fault) ==
    Turn(FileCatch(processFile(fs, dirs, file, config, result, fault), file), FALSE)

\* 'GENERAL', the path of an error that is not about one file
General == <<<<"G","E","N","E","R","A","L">>>>

\* lines 62-70 of mirrorFiles: the catch around the whole operation
GeneralCatch(result) ==
    [result EXCEPT !.success = FALSE, !.errors = Append(@, [filePath |-> General])]

\* a selection that takes every record whatever the list
SelectAll(allFiles, config) == allFiles

\* config.selectedFiles ? allFiles.filter(...) : allFiles
RECURSIVE SelectFiles(_, _)
SelectFiles(allFiles, config) ==
    IF allFiles = <<>> THEN <<>>
    ELSE IF ~config.hasSelectedFiles \/ Head(allFiles).filePath \in config.selectedFiles
    THEN <<Head(allFiles)>> \o SelectFiles(Tail(allFiles), config)
    ELSE SelectFiles(Tail(allFiles), config)

\* lines 87-93: the turn of the loop of checkFileConflicts on file, rest
\* being what the turns after it give
CheckOne(fs, dirs, file, destination, rest) ==
    IF destination.threw \/ rest.threw THEN [threw |-> TRUE, conflicts |-> <<>>]
    ELSE IF fileExists(fs, dirs, destination.path)
    THEN [rest EXCEPT !.conflicts =
              <<[filename |-> file.filename, destinationPath |-> destination.path]>> \o @]
    ELSE rest

\* checkFileConflicts: the records whose destination exists
RECURSIVE checkFileConflicts(_, _, _, _)
checkFileConflicts(fs, dirs, config, filesToCheck) ==
    IF filesToCheck = <<>> THEN [threw |-> FALSE, conflicts |-> <<>>]
    ELSE CheckOne(fs, dirs, Head(filesToCheck),
                  buildDestinationPath(Head(filesToCheck), config),
                  checkFileConflicts(fs, dirs, config, Tail(filesToCheck)))

(* ---------------------------------------------------------------------- *)
(* Inputs of the model                                                     *)
(* ---------------------------------------------------------------------- *)

NameStrict ==
    <<"P","R","2","_","A","l","l","e","n","_","S","c","5",".","1","4","D","_",
      "0","1",".","w","a","v">>
NameScene3 == <<"A","_","B","_","S","c","3","_","2",".","w","a","v">>
NamePlain == <<"x",".","w","a","v">>
NameText == <<"x",".","t","x","t">>
NameUpper == <<"A","_","B","_","C","_","0","1",".","W","A","V">>

DescriptionText ==
    <<"S","C","0","7","_","T","K","0","3"," ","v","o","i","c","e","o","v","e","r">>

\* a broadcast-metadata chunk as wavefile reads it
BextOf(description, originator) ==
    [DefaultBext EXCEPT !.chunkId = Str(<<"b","e","x","t">>),
                        !.description = Str(description),
                        !.originator = Str(originator),
                        !.originatorReference = Str(<<"R","E","F">>),
                        !.originationDate = Str(<<"2","0","2","4">>),
                        !.originationTime = Str(<<"1","2">>),
                        !.timeReferenceLow = Num(<<"4","8">>),
                        !.codingHistory = Str(<<"P","C","M">>)]

\* the leaves of an iXML document
XmlOf(project, scene, take, note, circled) ==
    [key \in {"PROJECT", "SCENE", "TAKE", "SLATE", "NOTE", "CIRCLED",
              "WILD_TRACK", "CATEGORY", "UBITS"} |->
        CASE key = "PROJECT" -> project
          [] key = "SCENE" -> scene
          [] key = "TAKE" -> take
          [] key = "SLATE" -> <<"D">>
          [] key = "NOTE" -> note
          [] key = "CIRCLED" -> circled
          [] key = "WILD_TRACK" -> TrueText
          [] key = "CATEGORY" -> <<"C","a","t">>
          [] key = "UBITS" -> <<"0","0","7">>]

\* the bytes a source file can hold when the application starts
BytesBare == WavBytes(DefaultBext, NoIXMLChunk, 1)
BytesBext == WavBytes(BextOf(DescriptionText, <<"O","R","G">>), NoIXMLChunk, 2)
BytesIXML ==
    WavBytes(BextOf(<<"d","e","s","c">>, <<"O","R","G">>),
             IXMLChunk(XmlOf(<<"P","R","2">>, <<"7">>, <<"4">>, <<"h","i">>, TrueText)), 3)
BytesZero ==
    WavBytes(BextOf(<<>>, <<"O","R","G">>),
             IXMLChunk(XmlOf(<<>>, <<"0">>, <<"0","1">>, <<" ">>, FalseText)), 4)
BytesCorrupt == WavBytes(BextOf(DescriptionText, <<>>), CorruptIXMLChunk, 5)
BytesTakeOnly ==
    WavBytes(BextOf(DescriptionText, <<"O","R","G">>),
             IXMLChunk(XmlOf(<<>>, <<>>, <<"4">>, <<"h","i">>, <<"F","A","L","S","E">>)), 6)

SourceBytes ==
    {BytesBare, BytesBext, BytesIXML, BytesZero, BytesCorrupt, BytesTakeOnly, Garbage}

\* the fields a table cell edits (EDITABLE_FIELDS) and the texts typed
EditableFields == {"show", "category", "subcategory", "scene", "take", "ixmlNote"}

EditTexts == {<<>>, <<"0","1">>}

\* how many cell edits one behaviour makes
MaxEdits == 1

(* ---------------------------------------------------------------------- *)
(* The state                                                               *)
(* ---------------------------------------------------------------------- *)

VARIABLES
    fs,       \* the files on disk: path |-> bytes
    dirs,     \* the directories on disk
    files,    \* the renderer store's records, in table order
    mirror,   \* the mirrorFiles call in progress in the main process
    runs,     \* the finished mirrorFiles calls, oldest first
    used,     \* how much of each bound the behaviour has used
    calls,    \* the writeMetadata calls that overlap, each with its position
    store,    \* the renderer store's flags, marks and undo history
    saved,    \* the record last read from or written back to each path, and
              \* whether the store has touched the record since
    lastOp    \* the last operation: its arguments, the state before, its outcome

vars == <<fs, dirs, files, mirror, runs, used, calls, store, saved, lastOp>>

\* the store as create() builds it: nothing edited, nothing being saved
IdleStore == [isDirty |-> FALSE, isSaving |-> FALSE, error |-> "null",
              lastModified |-> {}, history |-> <<>>, historyIndex |-> -1]

\* updateFileMetadata, lines 2346-2413: the store after the edit of file
EditedStore(s, file, field, value) ==
    [s EXCEPT !.isDirty = TRUE,
              !.lastModified = @ \cup {file.filePath},
              !.history = Append(SubSeq(s.history, 1, s.historyIndex + 1),
                                 [filePath |-> file.filePath, field |-> field,
                                  oldValue |-> file[field], newValue |-> Str(value)]),
              !.historyIndex = s.historyIndex + 1]

NoConfig == [destinationPath |-> <<>>, organizeLevels |-> <<>>,
             hasSelectedFiles |-> FALSE, selectedFiles |-> {}]

\* no mirrorFiles call is running.  selected is filesToProcess, queue the
\* part of it the loop has not reached, processed the paths of the records
\* processFile was called on, rootOk whether the destination root could be
\* created, faulted whether a fault was injected into the call.
IdleMirror ==
    [pc |-> "idle", config |-> NoConfig, allFiles |-> <<>>, selected |-> <<>>,
     queue |-> <<>>, processed |-> <<>>, result |-> NewResult, rootOk |-> FALSE,
     faulted |-> FALSE]

\* the index in files of the record of filePath, 0 when there is none
IndexOfFile(filePath) ==
    IF \E i \in DOMAIN files : files[i].filePath = filePath
    THEN CHOOSE i \in DOMAIN files : files[i].filePath = filePath
    ELSE 0

\* the names of the directories the source files are in
SourceDirs == {<<"a">>, <<"b">>}

\* a path the user can drop on the window: a file of a source directory, or
\* a path that does not exist
MissingPath == <<<<"a">>, <<"g","o","n","e",".","w","a","v">>>>
DropPaths == {q \in DOMAIN fs : DirName(q) \in {<<d>> : d \in SourceDirs}} \cup {MissingPath}

SourceNames == {NameStrict, NameScene3, NamePlain, NameText, NameUpper}

\* what lastOp holds of an operation that starts in the current state: op is
\* the operation, path and record its arguments, fault the fault injected,
\* fs and dirs the disk before it; threw, error, destination and result are
\* its outcome and before is the mirror result it started from
BaseOp ==
    [op |-> "none", path |-> <<>>, fault |-> "none", threw |-> FALSE,
     error |-> "none", fs |-> fs, dirs |-> dirs, record |-> NoRecord,
     built |-> FALSE, destination |-> <<>>, before |-> NewResult,
     result |-> NewResult, config |-> NoConfig, conflicts |-> <<>>]

\* one source file, nothing loaded
InitMetadata ==
    /\ \E name \in SourceNames, bytes \in SourceBytes :
           fs = [q \in {<<<<"a">>, name>>} |-> bytes]
    /\ dirs = {<<>>, <<<<"a">>>>}
    /\ files = <<>>
    /\ mirror = IdleMirror
    /\ runs = <<>>
    /\ used = [edits |-> 0, faults |-> 0]
    /\ calls = <<>>
    /\ store = IdleStore
    /\ saved = <<>>
    /\ lastOp = BaseOp

(* ---------------------------------------------------------------------- *)
(* The renderer: loading, editing and saving a record                      *)
(* ---------------------------------------------------------------------- *)

\* addFiles for the outcome r of readMetadata(filePath)
AddRead(filePath, fault, r) ==
    /\ files' = IF r.error = "none" THEN Append(files, r.record) ELSE files
    /\ lastOp' = [BaseOp EXCEPT !.op = "read", !.path = filePath, !.fault = fault,
                                !.threw = r.error # "none", !.error = r.error,
                                !.record = r.record]

\* api.readMetadata(path) for a path given to the window, then addFiles
\* unless the path is in the table already (handleDrop)
LoadFile(filePath, fault) ==
    /\ IndexOfFile(filePath) = 0
    /\ AddRead(filePath, fault, readMetadata(fs, filePath, fault))
    /\ UNCHANGED <<fs, dirs, mirror, runs, used, calls, store, saved>>

\* updateFileMetadata(filePath, field, value): the records after a cell edit
\* (lines 2368-2372).  Nothing here reads the store's marks and history;
\* EditCell follows them.
UpdateFileMetadata(i, field, value) ==
    /\ used.edits < MaxEdits
    /\ files' = [files EXCEPT ![i] = [@ EXCEPT ![field] = Str(value)]]
    /\ used' = [used EXCEPT !.edits = @ + 1]
    /\ lastOp' = [BaseOp EXCEPT !.op = "edit", !.path = files[i].filePath,
                                !.record = files'[i]]
    /\ UNCHANGED <<fs, dirs, mirror, runs, calls, store, saved>>

\* the disk after the outcome r of writeMetadata(file.filePath, file)
Written(file, fault, r) ==
    /\ fs' = r.fs
    /\ lastOp' = [BaseOp EXCEPT !.op = "write", !.path = file.filePath,
                                !.fault = fault, !.threw = r.threw,
                                !.record = file]

\* window.electronAPI.writeMetadata(file.filePath, file): the main process
\* runs MetadataService.writeMetadata on its copy of the record
WriteFile(i, fault) ==
    /\ Written(files[i], fault, writeMetadata(fs, files[i].filePath, files[i], fault))
    /\ UNCHANGED <<dirs, files, mirror, runs, used, calls, store, saved>>

NextMetadata ==
    \/ \E filePath \in DropPaths, fault \in {"none", "read"} : LoadFile(filePath, fault)
    \/ \E i \in DOMAIN files, field \in EditableFields, value \in EditTexts :
           UpdateFileMetadata(i, field, value)
    \/ \E i \in DOMAIN files, fault \in WriteFaults : WriteFile(i, fault)

SpecMetadata == InitMetadata /\ [][NextMetadata]_vars

(* ---------------------------------------------------------------------- *)
(* Mirroring: MirrorModal.handleMirror and MirrorService.mirrorFiles       *)
(* ---------------------------------------------------------------------- *)

\* how many mirrorFiles calls, and how many injected faults, one behaviour has
MaxRuns == 2
MaxFaults == 1

DestinationRoot == <<<<"d">>>>

Level(field, order) == [field |-> field, order |-> order]

\* the organize levels the user builds in the modal
OrganizeLevels ==
    {<<Level("show", 0)>>, <<Level("scene", 1), Level("show", 0)>>}

\* selectedFiles of the configuration: undefined, or the path of the last row
Selections ==
    {[hasSelectedFiles |-> FALSE, selectedFiles |-> {}]}
        \cup {[hasSelectedFiles |-> TRUE, selectedFiles |-> {files[i].filePath}] :
                  i \in {Len(files)} \ {0}}

\* the faults injected into a turn of the loop: copyFile fails (Node removes
\* what it wrote of the destination), or writeFileSync fails in writeMetadata
MirrorStepFaults == {"none", "copy", "write"}

Configs ==
    {[destinationPath |-> DestinationRoot, organizeLevels |-> levels,
      hasSelectedFiles |-> sel.hasSelectedFiles, selectedFiles |-> sel.selectedFiles] :
         levels \in OrganizeLevels, sel \in Selections}

\* whether the behaviour may inject the fault
MayFault(fault) == fault = "none" \/ used.faults < MaxFaults

Spend(fault) ==
    [used EXCEPT !.faults = IF fault = "none" THEN @ ELSE @ + 1]

\* the two source files of a behaviour: <<name, bytes>> of the file in
\* directory a and of the file in directory b
SourcePairs ==
    {<<<<NameStrict, BytesCorrupt>>, <<NamePlain, BytesIXML>>>>,
     <<<<NameStrict, BytesCorrupt>>, <<NamePlain, BytesBare>>>>,
     <<<<NamePlain, BytesBare>>, <<NamePlain, BytesBare>>>>}

\* the cells edited, and the texts typed, before mirroring
MirrorEditFields == {"show"}
MirrorEditTexts == {<<>>, <<"X">>}

\* the disk holding the two files, and the table after both were read
TwoFiles(pathA, bytesA, pathB, bytesB) ==
    /\ fs = [q \in {pathA, pathB} |-> IF q = pathA THEN bytesA ELSE bytesB]
    /\ files = <<Resolve(pathA, bytesA), Resolve(pathB, bytesB)>>

\* two source files in two directories, both dropped on the window and read
InitMirror ==
    /\ \E pair \in SourcePairs :
           TwoFiles(<<<<"a">>, pair[1][1]>>, pair[1][2],
                    <<<<"b">>, pair[2][1]>>, pair[2][2])
    /\ dirs = {<<>>, <<<<"a">>>>, <<<<"b">>>>}
    /\ mirror = IdleMirror
    /\ runs = <<>>
    /\ used = [edits |-> 0, faults |-> 0]
    /\ calls = <<>>
    /\ store = IdleStore
    /\ saved = <<>>
    /\ lastOp = BaseOp

\* a cell edit made while the modal is closed, before the first mirror run
EditBeforeMirror(i, field, value) ==
    /\ mirror.pc = "idle"
    /\ runs = <<>>
    /\ UpdateFileMetadata(i, field, value)

\* the call after the destination root was made (mk) and filesToProcess
\* chosen (selected)
Started(config, fault, mk, selected) ==
    /\ dirs' = mk.dirs
    /\ mirror' = [IdleMirror EXCEPT
                      !.pc = IF mk.threw THEN "done" ELSE "loop",
                      !.config = config,
                      !.allFiles = files,
                      !.selected = IF mk.threw THEN <<>> ELSE selected,
                      !.queue = IF mk.threw THEN <<>> ELSE selected,
                      !.result = IF mk.threw THEN GeneralCatch(NewResult) ELSE NewResult,
                      !.rootOk = ~mk.threw,
                      !.faulted = fault # "none"]
    /\ lastOp' = [BaseOp EXCEPT !.op = "start", !.path = config.destinationPath,
                                !.fault = fault, !.threw = mk.threw,
                                !.result = mirror'.result]

\* handleMirror: setCurrentFiles(allFiles), then mirrorFiles(config) up to
\* its loop: the destination root is created and filesToProcess chosen
MirrorStart(config, fault) ==
    /\ mirror.pc = "idle"
    /\ Len(runs) < MaxRuns
    /\ config.destinationPath # <<>>
    /\ config.organizeLevels # <<>>
    /\ MayFault(fault)
    /\ Started(config, fault,
               ensureDirectoryExists(fs, dirs, config.destinationPath, fault),
               SelectFiles(files, config))
    /\ used' = Spend(fault)
    /\ UNCHANGED <<fs, files, runs, calls, store, saved>>

\* the state after a turn of the loop on file: step is what the loop body
\* left, escaped whether its failure left the loop for the catch of line 62
Turned(file, fault, destination, step, escaped) ==
    /\ fs' = step.fs
    /\ dirs' = step.dirs
    /\ mirror' = [mirror EXCEPT
                      !.pc = IF escaped THEN "done" ELSE @,
                      !.queue = IF escaped THEN @ ELSE Tail(@),
                      !.processed = Append(@, file.filePath),
                      !.result = IF escaped THEN GeneralCatch(step.result)
                                 ELSE step.result,
                      !.faulted = @ \/ fault # "none"]
    /\ lastOp' = [BaseOp EXCEPT !.op = "mirror", !.path = file.filePath,
                                !.fault = fault, !.threw = step.threw,
                                !.record = file, !.built = ~destination.threw,
                                !.destination = destination.path,
                                !.before = mirror.result,
                                !.result = mirror'.result]

TurnedWith(file, fault, destination, turn) ==
    Turned(file, fault, destination, turn.step, turn.escaped)

\* one turn of the loop of mirrorFiles: processFile on the next record
MirrorFile(fault) ==
    /\ mirror.pc = "loop"
    /\ mirror.queue # <<>>
    /\ MayFault(fault)
    /\ TurnedWith(Head(mirror.queue), fault,
                  buildDestinationPath(Head(mirror.queue), mirror.config),
                  MirrorOne(fs, dirs, Head(mirror.queue), mirror.config,
                            mirror.result, fault))
    /\ used' = Spend(fault)
    /\ UNCHANGED <<files, runs, calls, store, saved>>

\* mirrorFiles returns its result
MirrorFinish ==
    /\ mirror.pc = "done" \/ (mirror.pc = "loop" /\ mirror.queue = <<>>)
    /\ runs' = Append(runs, [config |-> mirror.config, selected |-> mirror.selected,
                             processed |-> mirror.processed, result |-> mirror.result,
                             rootOk |-> mirror.rootOk, faulted |-> mirror.faulted])
    /\ mirror' = IdleMirror
    /\ lastOp' = [BaseOp EXCEPT !.op = "finish", !.result = mirror.result]
    /\ UNCHANGED <<fs, dirs, files, used, calls, store, saved>>

\* what checkFileConflicts(config, allFiles) returned
Checked(config, r) ==
    lastOp' = [BaseOp EXCEPT !.op = "check", !.path = config.destinationPath,
                             !.threw = r.threw, !.config = config,
                             !.conflicts = r.conflicts]

\* api.checkFileConflicts(config) while no mirror operation runs
CheckConflicts(config) ==
    /\ mirror.pc = "idle"
    /\ Checked(config, checkFileConflicts(fs, dirs, config, SelectFiles(files, config)))
    /\ UNCHANGED <<fs, dirs, files, mirror, runs, used, calls, store, saved>>

NextMirror ==
    \/ \E i \in DOMAIN files, field \in MirrorEditFields, value \in MirrorEditTexts :
           EditBeforeMirror(i, field, value)
    \/ \E config \in Configs, fault \in {"none", "mkdir"} : MirrorStart(config, fault)
    \/ \E fault \in MirrorStepFaults : MirrorFile(fault)
    \/ MirrorFinish

SpecMirror == InitMirror /\ [][NextMirror]_vars

\* mirroring without faults, with the dry run asked for between the runs
\* the lists of selected paths the modal passes: none, the first row, or the
\* last row and a row that is no longer in the table
CheckSelections ==
    {[hasSelectedFiles |-> FALSE, selectedFiles |-> {}]}
        \cup {[hasSelectedFiles |-> TRUE, selectedFiles |-> {files[1].filePath}],
              [hasSelectedFiles |-> TRUE,
               selectedFiles |-> {files[Len(files)].filePath, MissingPath}]}

CheckConfigs ==
    {[destinationPath |-> DestinationRoot, organizeLevels |-> levels,
      hasSelectedFiles |-> sel.hasSelectedFiles, selectedFiles |-> sel.selectedFiles] :
         levels \in OrganizeLevels, sel \in CheckSelections}

NextCheck ==
    \/ \E config \in CheckConfigs : CheckConflicts(config)
    \/ \E config \in CheckConfigs : MirrorStart(config, "none")
    \/ MirrorFile("none")
    \/ MirrorFinish

SpecCheck == InitMirror /\ [][NextCheck]_vars

(* ---------------------------------------------------------------------- *)
(* buildDestinationPath on its own                                         *)
(* ---------------------------------------------------------------------- *)

\* records as readMetadata returns them
PathBaseRecords ==
    {readMetadata([q \in {<<<<"a">>, sample[1]>>} |-> sample[2]],
                  <<<<"a">>, sample[1]>>, "none").record :
         sample \in {<<NamePlain, BytesIXML>>, <<NamePlain, BytesBare>>,
                     <<NamePlain, BytesZero>>, <<NameStrict, BytesCorrupt>>}}

\* the texts typed into the show cell
PathShowTexts ==
    {<<"P","R","2">>, <<>>, <<" "," ">>, <<" ","a"," "," ","b"," ">>,
     <<"a","/","b",":","c">>, <<".",".">>}

\* a record as read, or as read and then edited in its show cell
PathRecords ==
    PathBaseRecords
        \cup {[record EXCEPT !.show = Str(text)] :
                  record \in PathBaseRecords, text \in PathShowTexts}

PathLevels ==
    {<<Level("show", 0), Level("scene", 1)>>,
     <<Level("scene", 1), Level("show", 0)>>,
     <<Level("scene", 0), Level("show", 1)>>}

\* one record in the table and one configuration in the modal
InitPath ==
    /\ fs = [q \in {} |-> Garbage]
    /\ dirs = {<<>>}
    /\ \E record \in PathRecords : files = <<record>>
    /\ \E levels \in PathLevels :
           mirror = [IdleMirror EXCEPT !.config.destinationPath = DestinationRoot,
                                       !.config.organizeLevels = levels]
    /\ runs = <<>>
    /\ used = [edits |-> 0, faults |-> 0]
    /\ calls = <<>>
    /\ store = IdleStore
    /\ saved = <<>>
    /\ lastOp = BaseOp

\* the outcome of buildDestinationPath(file, config), recorded
Built(file, destination) ==
    lastOp' = [BaseOp EXCEPT !.op = "path", !.path = file.filePath,
                             !.record = file,
                             !.threw = destination.threw,
                             !.built = ~destination.threw,
                             !.destination = destination.path]

\* buildDestinationPath(file, config) on the record and the configuration
BuildPath ==
    /\ lastOp.op = "none"
    /\ Built(files[1], buildDestinationPath(files[1], mirror.config))
    /\ UNCHANGED <<fs, dirs, files, mirror, runs, used, calls, store, saved>>

NextPath == BuildPath

SpecPath == InitPath /\ [][NextPath]_vars

(* ---------------------------------------------------------------------- *)
(* Claims about writeMetadata and readMetadata (SpecMetadata)              *)
(* ---------------------------------------------------------------------- *)

\* the last operation was a writeMetadata call on an existing file
LastWrite == lastOp.op = "write" /\ lastOp.path \in DOMAIN lastOp.fs

\* C1: a writeMetadata call that fails after the backup was taken (reading,
\* parsing, merging, serializing or writing) throws to its caller and leaves
\* the file with the bytes it had before the call.
C1_FailedWriteRestoresFile ==
    LastWrite =>
        /\ lastOp.fault \in {"read", "serialize", "open", "write"} => lastOp.threw
        /\ lastOp.threw /\ lastOp.fault # "backup" =>
               fs[lastOp.path] = lastOp.fs[lastOp.path]

\* a call whose writeFileSync failed after truncating a well-formed file
C1_Witness ==
    /\ LastWrite
    /\ lastOp.fault = "write"
    /\ lastOp.threw
    /\ lastOp.fs[lastOp.path].kind = "wav"
    /\ fs[lastOp.path] = lastOp.fs[lastOp.path]

RoundTripFields == {"show", "scene", "take", "slate", "ixmlNote", "ixmlCircled"}

\* the record has every structural field set
FieldsSet(record) ==
    /\ \A f \in {"show", "scene", "take", "slate", "ixmlNote"} : Truthy(record[f])
    /\ record.ixmlCircled \in {Str(TrueText), Str(FalseText)}

\* C2: after a successful writeMetadata of a record with its structural
\* fields set, readMetadata of the file yields the record's show, scene,
\* take, slate, note and circled (compared as the text of the values).
C2_RoundTrip ==
    LastWrite /\ ~lastOp.threw /\ FieldsSet(lastOp.record) =>
        LET r == readMetadata(fs, lastOp.path, "none")
        IN  /\ r.error = "none"
            /\ \A f \in RoundTripFields : r.record[f].v = lastOp.record[f].v

\* the first text of the sequence that is not blank, "" when all are
RECURSIVE FirstNonEmpty(_)
FirstNonEmpty(texts) ==
    IF texts = <<>> THEN <<>>
    ELSE IF Trim(Head(texts)) # <<>> THEN Head(texts)
    ELSE FirstNonEmpty(Tail(texts))

\* the trimmed text of a tag of the file's structured metadata, "" when the
\* chunk or the tag is absent or the chunk is unparsable
IXMLText(bytes, key) ==
    IF bytes.iXML.chunkId # "" /\ bytes.iXML.wellFormed /\ key \in DOMAIN bytes.iXML.value
    THEN Trim(bytes.iXML.value[key])
    ELSE <<>>

\* C3: readMetadata resolves each field as the first non-empty source in the
\* fixed order: show = PROJECT, filename show, originator; scene, take, slate,
\* category, subcategory = the structured value, the filename value; note =
\* NOTE, description.  (Scene and take with both sources empty are left to
\* the pattern recovery.)
C3_FirstNonEmptySource ==
    lastOp.op = "read" /\ ~lastOp.threw =>
        LET bytes == lastOp.fs[lastOp.path]
            name == parseFilename(BaseName(lastOp.path))
            rec == lastOp.record
            pair(key, f) == <<IXMLText(bytes, key), name[f].v>>
        IN  /\ rec.show.v = FirstNonEmpty(pair("PROJECT", "show") \o <<bytes.bext.originator.v>>)
            /\ FirstNonEmpty(pair("SCENE", "scene")) # <<>> =>
                   rec.scene.v = FirstNonEmpty(pair("SCENE", "scene"))
            /\ FirstNonEmpty(pair("TAKE", "take")) # <<>> =>
                   rec.take.v = FirstNonEmpty(pair("TAKE", "take"))
            /\ rec.slate.v = FirstNonEmpty(pair("SLATE", "slate"))
            /\ rec.category.v = FirstNonEmpty(pair("CATEGORY", "category"))
            /\ rec.subcategory.v = FirstNonEmpty(pair("SUBCATEGORY", "subcategory"))
            /\ rec.ixmlNote.v =
                   FirstNonEmpty(<<IXMLText(bytes, "NOTE"), bytes.bext.description.v>>)

\* the tags updateIXMLData is authoritative for
WrittenTags == {"PROJECT", "SCENE", "TAKE", "SLATE", "NOTE", "CIRCLED"}

\* C4: a successful writeMetadata changes, in the broadcast chunk, only the
\* originator and, in the structured metadata, only PROJECT, SCENE, TAKE,
\* SLATE, NOTE and CIRCLED: every other field and tag of the file is as
\* before.
C4_OtherFieldsUnchanged ==
    LastWrite /\ ~lastOp.threw =>
        LET before == lastOp.fs[lastOp.path]
            after == fs[lastOp.path]
        IN  /\ \A p \in DOMAIN DefaultBext \ {"chunkId", "originator"} :
                   after.bext[p] = before.bext[p]
            /\ \A key \in DOMAIN before.iXML.value \ WrittenTags :
                   /\ key \in DOMAIN after.iXML.value
                   /\ after.iXML.value[key] = before.iXML.value[key]

\* C5: after a successful writeMetadata the backup file path + '.backup' is
\* gone.
C5_NoBackupAfterSuccess ==
    LastWrite /\ ~lastOp.threw => BackupPath(lastOp.path) \notin DOMAIN fs

(* ---------------------------------------------------------------------- *)
(* Claims about mirrorFiles (SpecMirror)                                   *)
(* ---------------------------------------------------------------------- *)

\* the paths of a sequence of records
PathsOf(records) == [i \in DOMAIN records |-> records[i].filePath]

\* no two records of the sequence have the same file name
DistinctNames(records) ==
    \A i, j \in DOMAIN records : i # j => records[i].filename # records[j].filename

\* C6: mirrorFiles run twice on the same N records with the same destination
\* root and organize levels reports N copied and no conflict the first time,
\* nothing copied and N conflicts the second time.  (Stated for runs without
\* an injected fault, on records with pairwise different file names, into a
\* destination that is empty before the first run.)
C6_MirrorIdempotent ==
    (/\ Len(runs) >= 2
     /\ runs[1].config = runs[2].config
     /\ runs[1].selected = runs[2].selected
     /\ ~runs[1].faulted /\ ~runs[2].faulted
     /\ DistinctNames(runs[1].selected))
        => LET n == Len(runs[1].selected)
           IN  /\ runs[1].result.copiedFiles = n
               /\ Len(runs[1].result.conflicts) = 0
               /\ runs[2].result.copiedFiles = 0
               /\ Len(runs[2].result.conflicts) = n

\* the last operation was a turn of the mirror loop on a record whose
\* computed destination existed
LastMirrorOnExisting ==
    /\ lastOp.op = "mirror"
    /\ lastOp.built
    /\ lastOp.destination \in DOMAIN lastOp.fs

\* C7: when the computed destination of a record exists, the turn of the
\* loop copies and writes nothing (every file has the bytes it had), adds
\* the record to conflicts with action "skip" and counts nothing; no
\* conflict ever has another action.
C7_NeverOverwrites ==
    /\ LastMirrorOnExisting =>
           /\ fs = lastOp.fs
           /\ lastOp.result.conflicts =
                  Append(lastOp.before.conflicts,
                         [sourcePath |-> lastOp.path,
                          destinationPath |-> lastOp.destination,
                          action |-> "skip"])
           /\ lastOp.result.copiedFiles = lastOp.before.copiedFiles
           /\ lastOp.result.errors = lastOp.before.errors
    /\ \A i \in DOMAIN mirror.result.conflicts :
           mirror.result.conflicts[i].action = "skip"

\* a second run found the copy of the first run and skipped the record
C7_Witness ==
    /\ LastMirrorOnExisting
    /\ Len(runs) = 1
    /\ runs[1].result.copiedFiles > 0
    /\ lastOp.fs[lastOp.destination].kind = "wav"
    /\ fs[lastOp.destination] = lastOp.fs[lastOp.destination]
    /\ Len(lastOp.result.conflicts) = Len(lastOp.before.conflicts) + 1

\* C8: a failure of processFile for one record is appended to errors with
\* the record's path and the loop goes on: every finished call whose
\* destination root could be created has called processFile on every
\* selected record, in order; success is false whenever errors is not empty.
C8_PerFileIsolation ==
    /\ lastOp.op = "mirror" /\ lastOp.threw =>
           /\ lastOp.result.errors =
                  Append(lastOp.before.errors, [filePath |-> lastOp.path])
           /\ ~lastOp.result.success
           /\ mirror.pc = "loop"
    /\ mirror.result.errors # <<>> => ~mirror.result.success
    /\ \A k \in DOMAIN runs :
           /\ runs[k].rootOk => runs[k].processed = PathsOf(runs[k].selected)
           /\ runs[k].result.errors # <<>> => ~runs[k].result.success

\* a finished call on two records: the first failed in its copy or its
\* write-back, the second was copied
C8_Witness ==
    \E k \in DOMAIN runs :
        /\ runs[k].faulted
        /\ Len(runs[k].selected) = 2
        /\ runs[k].result.errors = <<[filePath |-> runs[k].selected[1].filePath]>>
        /\ runs[k].result.copiedFiles = 1
        /\ ~runs[k].result.success

\* C9: for a record counted as copied (its structural fields set), reading
\* the destination file yields the record's in-memory show, scene, take,
\* slate, note and circled.
C9_CopyHoldsRecordValues ==
    (/\ lastOp.op = "mirror"
     /\ lastOp.result.copiedFiles = lastOp.before.copiedFiles + 1
     /\ FieldsSet(lastOp.record))
        => LET r == readMetadata(fs, lastOp.destination, "none")
           IN  /\ r.error = "none"
               /\ \A f \in RoundTripFields : r.record[f].v = lastOp.record[f].v

(* ---------------------------------------------------------------------- *)
(* Claims about buildDestinationPath (SpecPath)                            *)
(* ---------------------------------------------------------------------- *)

\* the folder of one level: the sanitized trimmed text of the field, or Misc
ExpectedFolder(record, level) ==
    LET text == Trim(record[level.field].v)
    IN  IF text = <<>> THEN MiscName ELSE sanitizeFolderName(text)

\* the root, then the folder of each level in the given order
RECURSIVE ExpectedFolders(_, _, _)
ExpectedFolders(root, record, levels) ==
    IF levels = <<>> THEN root
    ELSE ExpectedFolders(PathJoin(root, ExpectedFolder(record, Head(levels))),
                         record, Tail(levels))

\* C10: the destination path of a record is the destination root, one folder
\* per organize level in ascending order of the levels' order (the sanitized
\* trimmed value of the field, or "Misc" when it is empty or blank), and the
\* unmodified file name.
C10_DestinationPath ==
    lastOp.op = "path" =>
        /\ lastOp.built
        /\ lastOp.destination =
               PathJoin(ExpectedFolders(mirror.config.destinationPath, lastOp.record,
                                        SortLevels(mirror.config.organizeLevels)),
                        lastOp.record.filename)

(* ---------------------------------------------------------------------- *)
(* sanitizeFolderName on its own (SpecSanitize)                            *)
(* ---------------------------------------------------------------------- *)

\* how far the length of the plain part of a name goes beyond MaxFolderName
MaxExtra == 2

\* n times the character c
Repeat(c, n) == [i \in 1..n |-> c]

\* what a name ends with: nothing, invalid characters, runs of white space
SanitizeTails ==
    {<<>>, <<"b">>, <<"/">>, <<"a",":","b","?">>, <<" ">>, <<" "," ">>,
     <<" ","\t"," ">>, <<" "," ","b"," "," "," ","c">>, <<"<"," "," ",">">>}

\* the lengths of the plain part of a name
SanitizeLengths == {0, 1} \cup ((MaxFolderName - 7)..(MaxFolderName + MaxExtra))

\* the names sanitizeFolderName is applied to
SanitizeNames ==
    {Repeat("a", n) \o tail : n \in SanitizeLengths, tail \in SanitizeTails}

\* a folder name is about to be sanitized
InitSanitize ==
    /\ fs = [q \in {} |-> Garbage]
    /\ dirs = {<<>>}
    /\ files = <<>>
    /\ mirror = IdleMirror
    /\ runs = <<>>
    /\ used = [edits |-> 0, faults |-> 0]
    /\ calls = <<>>
    /\ store = IdleStore
    /\ saved = <<>>
    /\ \E name \in SanitizeNames :
           lastOp = [op |-> "none", name |-> name, folder |-> <<>>]

\* sanitizeFolderName(name)
Sanitize ==
    /\ lastOp.op = "none"
    /\ lastOp' = [lastOp EXCEPT !.op = "sanitize",
                                !.folder = sanitizeFolderName(lastOp.name)]
    /\ UNCHANGED <<fs, dirs, files, mirror, runs, used, calls, store, saved>>

NextSanitize == Sanitize

SpecSanitize == InitSanitize /\ [][NextSanitize]_vars

\* the positions of a name that start a run of white space or hold another
\* character, in order
KeptPositions(name) ==
    {i \in DOMAIN name : ~IsSpace(name[i]) \/ i = 1 \/ ~IsSpace(name[i - 1])}

\* the k-th smallest element of a set of numbers
Nth(positions, k) ==
    CHOOSE i \in positions : Cardinality({j \in positions : j <= i}) = k

\* the character a kept position gives
Replacement(c) == IF IsSpace(c) \/ IsInvalidChar(c) THEN "_" ELSE c

\* C11 (as the code has it): sanitizeFolderName gives '_' for each of
\* < > : " / \ | ? * and for each run of white space, keeps every other
\* character, and cuts the result to MaxFolderName characters: the output has
\* exactly MaxFolderName characters when the name has at least that many
\* after its runs of white space were collapsed, and fewer otherwise.
C11_SanitizedName ==
    lastOp.op = "sanitize" =>
        LET kept == KeptPositions(lastOp.name)
            n == IF Cardinality(kept) < MaxFolderName
                 THEN Cardinality(kept) ELSE MaxFolderName
        IN  /\ Len(lastOp.folder) = n
            /\ \A k \in 1..n :
                   lastOp.folder[k] = Replacement(lastOp.name[Nth(kept, k)])

\* a name longer than MaxFolderName, with an invalid character and a run of
\* white space, was cut to MaxFolderName characters
C11_Witness ==
    /\ lastOp.op = "sanitize"
    /\ Len(lastOp.name) > MaxFolderName + 1
    /\ \E i \in DOMAIN lastOp.name : IsInvalidChar(lastOp.name[i])
    /\ \E i \in DOMAIN lastOp.name : IsSpace(lastOp.name[i])
    /\ Len(lastOp.folder) = MaxFolderName

\* C11 as stated: for any input longer than 100 characters the output has
\* exactly 100 characters.
C11_LongInputGivesExactly100 ==
    lastOp.op = "sanitize" /\ Len(lastOp.name) > MaxFolderName =>
        Len(lastOp.folder) = MaxFolderName


(* ---------------------------------------------------------------------- *)
(* C12: pattern recovery of scene and take from the description            *)
(* ---------------------------------------------------------------------- *)

\* the value a field has after the precedence table of lines 33-34: the
\* structured value, else the filename value, else ""
AfterPrecedence(bytes, filePath, key, field) ==
    Or(Or(Get(extractIXMLData(bytes), key), parseFilename(BaseName(filePath))[field]),
       Str(<<>>))

\* the last operation read a file whose recovery ran: scene or take was
\* empty after the precedence table and the description is not empty
RecoveryRan ==
    /\ lastOp.op = "read" /\ ~lastOp.threw
    /\ \/ ~Truthy(AfterPrecedence(lastOp.fs[lastOp.path], lastOp.path, "SCENE", "scene"))
       \/ ~Truthy(AfterPrecedence(lastOp.fs[lastOp.path], lastOp.path, "TAKE", "take"))
    /\ lastOp.record.bwf.Description.v # <<>>

\* what the recovery makes of a field that was value0 after the precedence
\* table, capture being the pattern's capture for it
Recovered(value0, ran, matched, capture) ==
    IF ran /\ matched /\ ~Truthy(value0) THEN Str(capture) ELSE value0

\* C12: the pattern recovery runs only when scene or take is empty after the
\* precedence table and the description is not empty; on a match capture 1
\* becomes the scene only if the scene is empty and capture 2 the take only
\* if the take is empty, and a scene or take that has a value stays as it
\* is.  Description "SC07_TK03 voiceover" with no scene and take gives scene
\* "07" and take "03".
C12_PatternRecovery ==
    lastOp.op = "read" /\ ~lastOp.threw =>
        /\ lastOp.record.scene =
               Recovered(AfterPrecedence(lastOp.fs[lastOp.path], lastOp.path, "SCENE", "scene"),
                         RecoveryRan,
                         SceneTakeMatch(lastOp.record.bwf.Description.v).matched,
                         SceneTakeMatch(lastOp.record.bwf.Description.v).scene)
        /\ lastOp.record.take =
               Recovered(AfterPrecedence(lastOp.fs[lastOp.path], lastOp.path, "TAKE", "take"),
                         RecoveryRan,
                         SceneTakeMatch(lastOp.record.bwf.Description.v).matched,
                         SceneTakeMatch(lastOp.record.bwf.Description.v).take)
        /\ (/\ lastOp.record.bwf.Description.v = DescriptionText
            /\ ~Truthy(AfterPrecedence(lastOp.fs[lastOp.path], lastOp.path, "SCENE", "scene"))
            /\ ~Truthy(AfterPrecedence(lastOp.fs[lastOp.path], lastOp.path, "TAKE", "take")))
           => /\ lastOp.record.scene = Str(<<"0","7">>)
              /\ lastOp.record.take = Str(<<"0","3">>)

\* a read whose recovery filled the empty scene from the description and
\* left the take the structured metadata gave
C12_Witness ==
    /\ RecoveryRan
    /\ Truthy(AfterPrecedence(lastOp.fs[lastOp.path], lastOp.path, "TAKE", "take"))
    /\ lastOp.record.scene = Str(<<"0","7">>)
    /\ lastOp.record.take = AfterPrecedence(lastOp.fs[lastOp.path], lastOp.path, "TAKE", "take")
    /\ lastOp.record.take # Str(<<"0","3">>)


(* ---------------------------------------------------------------------- *)
(* C13: an unparsable chunk is absorbed                                    *)
(* ---------------------------------------------------------------------- *)

\* the last operation read, without a fault of the disk, a decodable .wav
\* file whose structured-metadata chunk the XML parser rejects
ReadOfCorruptChunk ==
    /\ lastOp.op = "read" /\ lastOp.fault = "none"
    /\ lastOp.path \in DOMAIN lastOp.fs
    /\ EqualsIgnoreCase(ExtName(lastOp.path), WavExt)
    /\ lastOp.fs[lastOp.path].kind = "wav"
    /\ lastOp.fs[lastOp.path].iXML.chunkId # ""
    /\ ~lastOp.fs[lastOp.path].iXML.wellFormed

HasWavExtension(filePath) ==
    /\ Len(BaseName(filePath)) > 4
    /\ [i \in 1..4 |-> ToUpper(BaseName(filePath)[Len(BaseName(filePath)) - 4 + i])]
           = <<".","W","A","V">>

\* the bytes of the file cannot be read or are no audio container
Unreadable == lastOp.fault = "read" \/ lastOp.fs[lastOp.path].kind # "wav"

C15_SceneTakeOpaque ==
    /\ lastOp.op = "read" /\ ~lastOp.threw =>
           lastOp.record.scene.k = "string" /\ lastOp.record.take.k = "string"
    /\ (/\ LastWrite /\ ~lastOp.threw
        /\ lastOp.record.scene.k = "string" /\ lastOp.record.scene.v # <<>>
        /\ lastOp.record.take.k = "string" /\ lastOp.record.take.v # <<>>)
       => /\ readMetadata(fs, lastOp.path, "none").record.scene = lastOp.record.scene
          /\ readMetadata(fs, lastOp.path, "none").record.take = lastOp.record.take


(* ---------------------------------------------------------------------- *)
(* FilenameParser.parse                                                    *)
(* ---------------------------------------------------------------------- *)

\* /^\d+$/.test(text)
IsNumeric(text) == text # <<>> /\ \A i \in DOMAIN text : IsDigit(text[i])

\* filename.replace(/\.wav$/i, '')
StripWav(filename) ==
    IF /\ Len(filename) >= Len(WavExt)
       /\ EqualsIgnoreCase(SubSeq(filename, Len(filename) - Len(WavExt) + 1, Len(filename)),
                           WavExt)
    THEN SubSeq(filename, 1, Len(filename) - Len(WavExt))
    ELSE filename

\* what parse returns: null, or the fields it found
NoMatch == [isNull |-> TRUE, data |-> NoFilenameData]
Matched(data) == [isNull |-> FALSE, data |-> data]

\* strategy 2 without the pop: the numeric last part stays in the scene
parseGenericKeepTake(genericParts) ==
    IF Len(genericParts) < 2 THEN NoMatch
    ELSE Matched([NoFilenameData EXCEPT
                     !.show = Str(genericParts[1]),
                     !.category = Str(genericParts[2]),
                     !.scene = Str(Join(SubSeq(genericParts, 3, Len(genericParts)), "_")),
                     !.take = IF Len(genericParts) > 2
                                 /\ IsNumeric(genericParts[Len(genericParts)])
                              THEN Str(genericParts[Len(genericParts)])
                              ELSE Str(<<>>)])

\* strategy 2 (lines 229-257) on the '_'-separated parts of the stem
parseGeneric(genericParts) ==
    IF Len(genericParts) < 2 THEN NoMatch
    ELSE IF Len(genericParts) > 2 /\ IsNumeric(genericParts[Len(genericParts)])
    THEN Matched([NoFilenameData EXCEPT
                     !.show = Str(genericParts[1]),
                     !.category = Str(genericParts[2]),
                     !.scene = Str(Join(SubSeq(genericParts, 3, Len(genericParts) - 1), "_")),
                     !.take = Str(genericParts[Len(genericParts)])])
    ELSE Matched([NoFilenameData EXCEPT
                     !.show = Str(genericParts[1]),
                     !.category = Str(genericParts[2]),
                     !.scene = Str(Join(SubSeq(genericParts, 3, Len(genericParts)), "_")),
                     !.take = Str(<<>>)])

\* strategy 1 (lines 211-227) gave specific, NoFilenameData when the
\* pattern did not match; strategy 2 is tried then
ParseStrategies(specific, genericParts) ==
    IF specific # NoFilenameData THEN Matched(specific) ELSE parseGeneric(genericParts)

parse(filename) ==
    ParseStrategies(MatchTokens(Split(filename, "_")), Split(StripWav(filename), "_"))

(* ---------------------------------------------------------------------- *)
(* The filename matchers on their own                                      *)
(* ---------------------------------------------------------------------- *)

\* the pieces file names are made of
ShowPieces == {<<"P","R","2">>, <<>>}
ScenePieces ==
    {<<"S","c","5",".","1","4","D">>, <<"S","c","5",".","1",".","4","d">>,
     <<"s","c","3">>, <<"S","c",".">>, <<"S","c","D">>, <<"C">>, <<"7">>, <<>>}
TakePieces == {<<"0","1">>, <<"x">>, <<"1","a">>, <<>>}
Extensions == {WavExt, <<".","W","A","V">>, <<".","t","x","t">>}
Stems ==
    {Join(<<show, <<"A","l","l","e","n">>, scene, take>>, "_") :
        show \in ShowPieces, scene \in ScenePieces, take \in TakePieces}
    \cup {<<>>, <<"x">>, <<"A","_","B">>, <<"A","_","B","_","C">>, <<"A","_","B","_","7">>,
          <<"A","_","B","_","C","_","D","_","0","1">>,
          <<"A","_","B","_","C","_","0","1">>}
FileNames == {stem \o ext : stem \in Stems, ext \in Extensions}

InitFilename ==
    /\ fs = << >>
    /\ dirs = {<<>>}
    /\ files = <<>>
    /\ mirror = IdleMirror
    /\ runs = <<>>
    /\ used = [edits |-> 0, faults |-> 0]
    /\ calls = <<>>
    /\ store = IdleStore
    /\ saved = <<>>
    /\ \E name \in FileNames :
           lastOp = [op |-> "none", name |-> name, isNull |-> TRUE,
                     data |-> NoFilenameData]

\* filenameParser.parse(name)
Parsed(r) ==
    lastOp' = [lastOp EXCEPT !.op = "parse", !.isNull = r.isNull, !.data = r.data]

Parse ==
    /\ lastOp.op = "none"
    /\ Parsed(parse(lastOp.name))
    /\ UNCHANGED <<fs, dirs, files, mirror, runs, used, calls, store, saved>>

\* MetadataService.parseFilename(name): {} is the record without a field
ParseFilename ==
    /\ lastOp.op = "none"
    /\ lastOp' = [lastOp EXCEPT !.op = "parseFilename", !.isNull = FALSE,
                                !.data = parseFilename(lastOp.name)]
    /\ UNCHANGED <<fs, dirs, files, mirror, runs, used, calls, store, saved>>

NextFilename == Parse \/ ParseFilename

SpecFilename == InitFilename /\ [][NextFilename]_vars

(* ---------------------------------------------------------------------- *)
(* C16, C17: the filename matchers                                         *)
(* ---------------------------------------------------------------------- *)

\* a matcher was applied and the strict pattern accepted the name
StrictAccepted ==
    /\ lastOp.op \in {"parse", "parseFilename"}
    /\ lastOp.data.slate # Undefined

\* text before the first '.' of text, all of it when there is none
BeforeFirstDot(text) ==
    IF IndexOf(text, ".") = 0 THEN text ELSE SubSeq(text, 1, IndexOf(text, ".") - 1)

\* C16: when the strict grammar accepts a name, the scene returned is made
\* of digits and at most one '.', the slate is empty or one uppercase
\* letter, the take is made of digits and the subcategory is the scene up
\* to its first '.'; PR2_Allen_Sc5.14D_01.wav gives show PR2, category
\* Allen, scene 5.14, slate D, take 01, subcategory 5.
C16_StrictGrammar ==
    StrictAccepted =>
        /\ \A i \in DOMAIN lastOp.data.scene.v :
               IsDigit(lastOp.data.scene.v[i]) \/ lastOp.data.scene.v[i] = "."
        /\ Cardinality({i \in DOMAIN lastOp.data.scene.v : lastOp.data.scene.v[i] = "."}) <= 1
        /\ \/ lastOp.data.slate.v = <<>>
           \/ /\ Len(lastOp.data.slate.v) = 1
              /\ \E i \in DOMAIN UpperCase : lastOp.data.slate.v[1] = UpperCase[i]
        /\ IsNumeric(lastOp.data.take.v)
        /\ lastOp.data.subcategory.v = BeforeFirstDot(lastOp.data.scene.v)
        /\ lastOp.name = NameStrict =>
               lastOp.data = [show |-> Str(<<"P","R","2">>),
                              category |-> Str(<<"A","l","l","e","n">>),
                              scene |-> Str(<<"5",".","1","4">>),
                              slate |-> Str(<<"D">>),
                              take |-> Str(<<"0","1">>),
                              subcategory |-> Str(<<"5">>)]

\* the '_'-separated tokens of the name without its .wav extension
TokensOf(name) == Split(StripWav(name), "_")

\* parse was applied to a name the strict grammar rejects
GenericParse == lastOp.op = "parse" /\ parseFilename(lastOp.name) = NoFilenameData

\* C17: for a name the strict grammar rejects, parse returns none when the
\* name without .wav has fewer than 2 tokens; otherwise show is token 0 and
\* category token 1, and with at least 3 tokens of which the last is all
\* digits the take is that token and the scene the tokens from index 2 up
\* to it joined by '_', else the take is empty and the scene the tokens
\* from index 2 joined by '_'.
C17_GenericFallback ==
    GenericParse =>
        IF Len(TokensOf(lastOp.name)) < 2 THEN lastOp.isNull
        ELSE /\ ~lastOp.isNull
             /\ lastOp.data.show = Str(TokensOf(lastOp.name)[1])
             /\ lastOp.data.category = Str(TokensOf(lastOp.name)[2])
             /\ IF /\ Len(TokensOf(lastOp.name)) >= 3
                   /\ IsNumeric(TokensOf(lastOp.name)[Len(TokensOf(lastOp.name))])
                THEN /\ lastOp.data.take =
                            Str(TokensOf(lastOp.name)[Len(TokensOf(lastOp.name))])
                     /\ lastOp.data.scene =
                            Str(Join([i \in 1..(Len(TokensOf(lastOp.name)) - 3) |->
                                         TokensOf(lastOp.name)[i + 2]], "_"))
                ELSE /\ lastOp.data.take = Str(<<>>)
                     /\ lastOp.data.scene =
                            Str(Join([i \in 1..(Len(TokensOf(lastOp.name)) - 2) |->
                                         TokensOf(lastOp.name)[i + 2]], "_"))

\* parse took the last of five tokens as the take and joined the two
\* before it as the scene
C17_Witness ==
    /\ GenericParse
    /\ lastOp.name = <<"A","_","B","_","C","_","D","_","0","1",".","w","a","v">>
    /\ lastOp.data.show = Str(<<"A">>)
    /\ lastOp.data.scene = Str(<<"C","_","D">>)
    /\ lastOp.data.take = Str(<<"0","1">>)


(* ---------------------------------------------------------------------- *)
(* C18: the filename fields readMetadata resolves with                     *)
(* ---------------------------------------------------------------------- *)

\* C18: the record readMetadata returns is the one resolved from the chunks
\* of the file and the fields FilenameParser.parse gives for its name, its
\* generic fallback included (none counting as no field): A_B_C_01.wav
\* with empty chunks resolves to show A, category B, scene C, take 01.
C18_ResolvesWithParse ==
    lastOp.op = "read" /\ ~lastOp.threw =>
        /\ lastOp.record =
               ResolveSources(lastOp.path, BaseName(lastOp.path),
                              extractBwfData(lastOp.fs[lastOp.path]),
                              extractIXMLData(lastOp.fs[lastOp.path]),
                              parse(BaseName(lastOp.path)).data)
        /\ (BaseName(lastOp.path) = NameUpper /\ lastOp.fs[lastOp.path] = BytesBare) =>
               /\ lastOp.record.show = Str(<<"A">>)
               /\ lastOp.record.category = Str(<<"B">>)
               /\ lastOp.record.scene = Str(<<"C">>)
               /\ lastOp.record.take = Str(<<"0","1">>)


(* ---------------------------------------------------------------------- *)
(* C19: checkFileConflicts against mirrorFiles                             *)
(* ---------------------------------------------------------------------- *)

\* the result of the loop of mirrorFiles over queue, without faults, from
\* the disk (disk, folders) and the result so far
RECURSIVE MirrorLoop(_, _, _, _, _)
MirrorRest(queue, config, step) ==
    MirrorLoop(step.fs, step.dirs, Tail(queue), config, step.result)

MirrorLoop(disk, folders, queue, config, result) ==
    IF queue = <<>> THEN result
    ELSE MirrorRest(queue, config,
                    MirrorOne(disk, folders, Head(queue), config, result, "none").step)

\* the conflicts mirrorFiles(config) would record in the current state
WouldConflict(config) ==
    MirrorLoop(fs, ensureDirectoryExists(fs, dirs, config.destinationPath, "none").dirs,
               SelectFiles(files, config), config, NewResult).conflicts

\* C19: checkFileConflicts reports a conflict for exactly the records that
\* mirrorFiles, called with the same configuration on the same records and
\* disk, would record as conflicts, in the same order and with the same
\* destinations, and it leaves the files and directories of the disk as
\* they are.
C19_DryRunOfMirror ==
    lastOp.op = "check" =>
        /\ ~lastOp.threw
        /\ Len(lastOp.conflicts) = Len(WouldConflict(lastOp.config))
        /\ \A i \in DOMAIN lastOp.conflicts :
               /\ lastOp.conflicts[i].destinationPath =
                      WouldConflict(lastOp.config)[i].destinationPath
               /\ lastOp.conflicts[i].filename =
                      BaseName(WouldConflict(lastOp.config)[i].sourcePath)
        /\ fs = lastOp.fs
        /\ dirs = lastOp.dirs


(* ---------------------------------------------------------------------- *)
(* Two writeMetadata calls on one path whose file-system calls interleave  *)
(* ---------------------------------------------------------------------- *)

\* writeMetadata has no await, so two calls made in one main process run
\* one after the other.  Nothing keeps a second instance of the
\* application from running: the calls of two instances are two operating
\* system processes, and their synchronous file-system calls (lines 80, 83,
\* 91 and 95) interleave.

\* the show typed in each instance before saving
CallTexts == <<<<"X">>, <<"Y">>>>

CallBytes == {BytesBare, BytesBext, BytesIXML, BytesTakeOnly}

CallPath == <<<<"a">>, NameStrict>>

\* a call of writeMetadata(filePath, metadata) that has not run a line yet:
\* backupPath and buffer are its locals, given its argument as it was
\* passed and disk the disk when it was made
NewCall(filePath, metadata, disk) ==
    [pc |-> "called", filePath |-> filePath, metadata |-> metadata,
     backupPath |-> <<>>, buffer |-> Garbage, given |-> metadata, disk |-> disk]

\* the record of the file with show set to text
EditedRecord(filePath, bytes, text) ==
    [Resolve(filePath, bytes) EXCEPT !.show = Str(text)]

InitConcurrent ==
    /\ \E bytes \in CallBytes :
           /\ fs = [q \in {CallPath} |-> bytes]
           /\ calls = [i \in DOMAIN CallTexts |->
                          NewCall(CallPath, EditedRecord(CallPath, bytes, CallTexts[i]),
                                  [q \in {CallPath} |-> bytes])]
    /\ dirs = {<<>>, <<<<"a">>>>}
    /\ files = <<>>
    /\ mirror = IdleMirror
    /\ runs = <<>>
    /\ used = [edits |-> 0, faults |-> 0]
    /\ store = IdleStore
    /\ saved = <<>>
    /\ lastOp = BaseOp

\* what lastOp holds of a step of call i
StepOp(i, op, fault, threw) ==
    lastOp' = [BaseOp EXCEPT !.op = op, !.path = calls[i].filePath, !.fault = fault,
                             !.threw = threw]

\* lines 79-80: backupPath = filePath + '.backup'; copyFileSync(filePath, backupPath)
Stage(i, fault) ==
    /\ calls[i].pc = "called"
    /\ MayFault(fault)
    /\ IF fault = "backup" \/ calls[i].filePath \notin DOMAIN fs
       THEN /\ fs' = fs
            /\ calls' = [calls EXCEPT ![i].pc = "threw",
                                      ![i].backupPath = BackupPath(calls[i].filePath)]
       ELSE /\ fs' = CopyFile(fs, calls[i].filePath, BackupPath(calls[i].filePath))
            /\ calls' = [calls EXCEPT ![i].pc = "staged",
                                      ![i].backupPath = BackupPath(calls[i].filePath)]
    /\ StepOp(i, "stage", fault, fault = "backup" \/ calls[i].filePath \notin DOMAIN fs)
    /\ used' = Spend(fault)
    /\ UNCHANGED <<dirs, files, mirror, runs, store, saved>>

\* lines 83-85: readFileSync(filePath) and wav.fromBuffer(buffer)
ReadBuffer(i, fault) ==
    /\ calls[i].pc = "staged"
    /\ MayFault(fault)
    /\ calls' = IF fault = "read" \/ fs[calls[i].filePath].kind # "wav"
                THEN [calls EXCEPT ![i].pc = "failed"]
                ELSE [calls EXCEPT ![i].pc = "read", ![i].buffer = fs[calls[i].filePath]]
    /\ StepOp(i, "readBuffer", fault, fault = "read" \/ fs[calls[i].filePath].kind # "wav")
    /\ used' = Spend(fault)
    /\ UNCHANGED <<fs, dirs, files, mirror, runs, store, saved>>

\* the call and the disk after lines 87-91 ended as r
WroteBack(i, fault, r) ==
    /\ fs' = r.fs
    /\ calls' = [calls EXCEPT ![i].pc = IF r.threw THEN "failed" ELSE "returned",
                              ![i].metadata = r.metadata]
    /\ StepOp(i, "writeBack", fault, r.threw)

\* lines 87-91: the two updates, toBuffer and writeFileSync(filePath, outputBuffer)
WriteBack(i, fault) ==
    /\ calls[i].pc = "read"
    /\ MayFault(fault)
    /\ WroteBack(i, fault,
                 WriteUpdated(fs, calls[i].filePath,
                              updateIXMLData(updateBwfData(calls[i].metadata)),
                              calls[i].buffer, fault))
    /\ used' = Spend(fault)
    /\ UNCHANGED <<dirs, files, mirror, runs, store, saved>>

\* lines 94-97: the catch block copies the backup over the file and rethrows
Restore(i) ==
    /\ calls[i].pc = "failed"
    /\ fs' = WriteCatch(fs, calls[i].filePath)
    /\ calls' = [calls EXCEPT ![i].pc = "threw"]
    /\ StepOp(i, "restore", "none", TRUE)
    /\ UNCHANGED <<dirs, files, mirror, runs, used, store, saved>>

NextConcurrent ==
    \/ \E i \in DOMAIN calls, fault \in {"none", "backup"} : Stage(i, fault)
    \/ \E i \in DOMAIN calls, fault \in {"none", "read"} : ReadBuffer(i, fault)
    \/ \E i \in DOMAIN calls, fault \in {"none", "open", "write"} : WriteBack(i, fault)
    \/ \E i \in DOMAIN calls : Restore(i)

SpecConcurrent == InitConcurrent /\ [][NextConcurrent]_vars

(* ---------------------------------------------------------------------- *)
(* C20: two overlapping write-backs of one file                            *)
(* ---------------------------------------------------------------------- *)

\* the call has run line 80
HasStaged(call) == call.pc \in {"staged", "read", "failed", "returned"}

Ended(call) == call.pc \in {"returned", "threw"}

\* the disks the call can leave when it runs alone on the disk it was made on
AloneDisks(call) ==
    {writeMetadata(call.disk, call.filePath, call.given, fault).fs : fault \in WriteFaults}

\* the bytes some call run alone can leave at path q
AloneBytes(q) ==
    UNION {{disk[q] : disk \in {d \in AloneDisks(calls[i]) : q \in DOMAIN d}} :
              i \in DOMAIN calls}

\* C20: two write-backs of the same file path that overlap stage the same
\* backup sibling, the path with ".backup" appended, and that file is on
\* disk once a call has staged it.  (That some interleaving leaves bytes no
\* call alone would have left is the state C20_Witness describes.)
C20_SameBackupPath ==
    \A i \in DOMAIN calls, j \in DOMAIN calls :
        HasStaged(calls[i]) /\ calls[i].filePath = calls[j].filePath =>
            /\ DirName(calls[i].backupPath) = DirName(calls[i].filePath)
            /\ BaseName(calls[i].backupPath) =
                   BaseName(calls[i].filePath) \o <<".","b","a","c","k","u","p">>
            /\ calls[i].backupPath \in DOMAIN fs
            /\ HasStaged(calls[j]) => calls[j].backupPath = calls[i].backupPath

\* both calls have ended, and the file and its backup both hold bytes that
\* neither call run alone would have left there: the original is lost
C20_Witness ==
    /\ Len(calls) = 2
    /\ \A i \in DOMAIN calls : Ended(calls[i])
    /\ calls[1].filePath = calls[2].filePath
    /\ calls[1].backupPath = calls[2].backupPath
    /\ fs[calls[1].filePath] \notin AloneBytes(calls[1].filePath)
    /\ fs[calls[1].backupPath] \notin AloneBytes(calls[1].backupPath)


(* ---------------------------------------------------------------------- *)
(* C21: writeMetadata is retry-safe                                        *)
(* ---------------------------------------------------------------------- *)

\* the file at filePath after writeMetadata(filePath, record) ran without a
\* fault on disk
FileAfterWrite(disk, filePath, record) ==
    writeMetadata(disk, filePath, record, "none").fs[filePath]

\* C21: after a writeMetadata call, successful or failed, the same call
\* made again leaves the file the call would have left had it run once on
\* the disk before; that result depends on the file's bytes alone, not on
\* what else is on disk; and after a failed attempt the whole disk after
\* the retry is the disk one successful call leaves.
C21_RetrySafe ==
    LastWrite =>
        /\ ~writeMetadata(fs, lastOp.path, lastOp.record, "none").threw
        /\ FileAfterWrite(fs, lastOp.path, lastOp.record) =
               FileAfterWrite(lastOp.fs, lastOp.path, lastOp.record)
        /\ FileAfterWrite(fs, lastOp.path, lastOp.record) =
               FileAfterWrite([q \in {lastOp.path} |-> fs[lastOp.path]],
                              lastOp.path, lastOp.record)
        /\ ~lastOp.threw => FileAfterWrite(fs, lastOp.path, lastOp.record) = fs[lastOp.path]
        /\ lastOp.threw =>
               writeMetadata(fs, lastOp.path, lastOp.record, "none").fs =
                   writeMetadata(lastOp.fs, lastOp.path, lastOp.record, "none").fs

\* a write-back failed while writing the file, and the same call made again
\* changes the file
C21_Witness ==
    /\ LastWrite /\ lastOp.threw /\ lastOp.fault = "write"
    /\ ~writeMetadata(fs, lastOp.path, lastOp.record, "none").threw
    /\ FileAfterWrite(fs, lastOp.path, lastOp.record) # fs[lastOp.path]


(* ---------------------------------------------------------------------- *)
(* C22: the wildtrack and circled flags                                    *)
(* ---------------------------------------------------------------------- *)

\* what readMetadata must make of the text of a flag tag: "true" for a true
\* value, "false" for an absent, empty or false one
FlagAsClaimed(flag, text) ==
    /\ flag \in {Str(TrueText), Str(FalseText)}
    /\ EqualsIgnoreCase(text, TrueText) => flag = Str(TrueText)
    /\ text = <<>> \/ EqualsIgnoreCase(text, FalseText) => flag = Str(FalseText)

\* C22: in every record readMetadata returns, ixmlWildtrack and ixmlCircled
\* are each the string "true" or the string "false": "true" when the
\* WILD_TRACK / CIRCLED value is present and true, "false" when it is
\* absent, empty or false.
C22_Flags ==
    lastOp.op = "read" /\ ~lastOp.threw =>
        /\ FlagAsClaimed(lastOp.record.ixmlWildtrack,
                         IXMLText(lastOp.fs[lastOp.path], "WILD_TRACK"))
        /\ FlagAsClaimed(lastOp.record.ixmlCircled,
                         IXMLText(lastOp.fs[lastOp.path], "CIRCLED"))


(* ---------------------------------------------------------------------- *)
(* C23: the records a mirror operation processes                           *)
(* ---------------------------------------------------------------------- *)

\* the records of allFiles the configuration selects, in their order
Selected(allFiles, config) ==
    IF config.hasSelectedFiles
    THEN SelectSeq(allFiles, LAMBDA file : file.filePath \in config.selectedFiles)
    ELSE allFiles

PathsIn(records) == [i \in DOMAIN records |-> records[i].filePath]

\* the paths result reports, as conflicts or as errors of one file
Reported(result) ==
    {result.conflicts[i].sourcePath : i \in DOMAIN result.conflicts}
        \cup ({result.errors[i].filePath : i \in DOMAIN result.errors} \ {General})

\* the selected records whose destination is on disk or cannot be built
Colliding(config) ==
    {i \in DOMAIN Selected(files, config) :
        /\ ~buildDestinationPath(Selected(files, config)[i], config).threw
        /\ fileExists(fs, dirs, buildDestinationPath(Selected(files, config)[i], config).path)}

Unbuildable(config) ==
    {i \in DOMAIN Selected(files, config) :
        buildDestinationPath(Selected(files, config)[i], config).threw}

\* C23: mirrorFiles and checkFileConflicts process every record when the
\* configuration has no list of selected paths and otherwise exactly the
\* records whose filePath is in the list, in the records' order; a record
\* outside the list is not copied, not reported as a conflict and not
\* reported as an error.
C23_Selection ==
    /\ mirror.pc # "idle" /\ mirror.rootOk =>
           /\ mirror.selected = Selected(mirror.allFiles, mirror.config)
           /\ mirror.processed \o PathsIn(mirror.queue) = PathsIn(mirror.selected)
           /\ Reported(mirror.result) \subseteq
                  {mirror.processed[i] : i \in DOMAIN mirror.processed}
    /\ \A k \in DOMAIN runs :
           runs[k].rootOk =>
               /\ runs[k].processed = PathsIn(Selected(files, runs[k].config))
               /\ Reported(runs[k].result) \subseteq
                      {p \in {files[i].filePath : i \in DOMAIN files} :
                          ~runs[k].config.hasSelectedFiles
                              \/ p \in runs[k].config.selectedFiles}
    /\ lastOp.op = "mirror" =>
           /\ ~mirror.config.hasSelectedFiles \/ lastOp.path \in mirror.config.selectedFiles
           /\ DOMAIN fs \ DOMAIN lastOp.fs \subseteq
                  {lastOp.destination, BackupPath(lastOp.destination)}
    /\ lastOp.op = "check" =>
           /\ lastOp.threw <=> Unbuildable(lastOp.config) # {}
           /\ ~lastOp.threw =>
                  /\ Len(lastOp.conflicts) = Cardinality(Colliding(lastOp.config))
                  /\ \A i \in DOMAIN lastOp.conflicts :
                         \E j \in Colliding(lastOp.config) :
                             lastOp.conflicts[i].filename =
                                 Selected(files, lastOp.config)[j].filename

\* a mirror run with a list naming the second record only has finished:
\* the first record was not processed and the second was copied
C23_Witness ==
    /\ lastOp.op = "finish"
    /\ Len(files) = 2
    /\ runs[Len(runs)].config.hasSelectedFiles
    /\ runs[Len(runs)].config.selectedFiles = {files[2].filePath, MissingPath}
    /\ runs[Len(runs)].processed = <<files[2].filePath>>
    /\ runs[Len(runs)].result.copiedFiles = 1


(* ---------------------------------------------------------------------- *)
(* C24: a mirrored copy is seeded from the record, the source is untouched *)
(* ---------------------------------------------------------------------- *)

\* the bytes without their two metadata chunks
Stripped(bytes) == [bytes EXCEPT !.bext = DefaultBext, !.iXML = NoIXMLChunk]

\* the last turn of the loop copied its record
LastCopied ==
    /\ lastOp.op = "mirror"
    /\ lastOp.result.copiedFiles = lastOp.before.copiedFiles + 1

\* C24: after every turn of the loop of mirrorFiles, whatever its outcome,
\* every source file holds the bytes it held before; and the copy a turn
\* made holds the audio of the source with the metadata of the in-memory
\* record: the same bytes as if the source had carried no metadata chunk,
\* its PROJECT being the record's show.
C24_CopySeededFromRecord ==
    lastOp.op = "mirror" =>
        /\ \A q \in DOMAIN lastOp.fs : q \in DOMAIN fs /\ fs[q] = lastOp.fs[q]
        /\ \A i \in DOMAIN files : files[i].filePath \in DOMAIN fs
        /\ LastCopied =>
               /\ lastOp.destination \notin DOMAIN lastOp.fs
               /\ fs[lastOp.destination].audio = lastOp.fs[lastOp.path].audio
               /\ fs[lastOp.destination] =
                      FileAfterWrite([q \in {lastOp.destination} |->
                                         Stripped(lastOp.fs[lastOp.path])],
                                     lastOp.destination, lastOp.record)
               /\ fs[lastOp.destination].iXML.value["PROJECT"] = lastOp.record.show.v

\* a record whose show was edited in memory to X was copied: the copy says
\* X while the source file still says what it said
C24_Witness ==
    /\ LastCopied
    /\ lastOp.record.show = Str(<<"X">>)
    /\ fs[lastOp.destination].iXML.value["PROJECT"] = <<"X">>
    /\ fs[lastOp.path] = lastOp.fs[lastOp.path]
    /\ IXMLText(fs[lastOp.path], "PROJECT") # <<"X">>

(* ---------------------------------------------------------------------- *)
(* The renderer store: cell edits, undo, redo and saveAllChanges          *)
(* ---------------------------------------------------------------------- *)

\* saveAllChanges awaits Promise.all of its writeMetadata invocations: the
\* store can be edited, and saveAllChanges called again, before the await
\* ends.  Each invocation runs MetadataService.writeMetadata in the main
\* process, one after the other in the order they were sent.  The search
\* text is empty, so filteredFiles is files.

\* how many cell edits one behaviour makes in the store
MaxStoreEdits == 2

\* how many saveAllChanges calls of one behaviour reach their await
MaxSaves == 2

StoreFields == {"show"}
StoreTexts == {<<"X">>}
StoreFaults == {"none", "write"}

\* the records with the field of the record at filePath set to value: the
\* spread keeps the record's lastModified as it was (lines 2568-2572, 2599-2603)
SetField(records, filePath, field, value) ==
    [i \in DOMAIN records |->
        IF records[i].filePath = filePath
        THEN [records[i] EXCEPT ![field] = value]
        ELSE records[i]]

\* lines 2534-2539: the records saveAllChanges writes back, as sent
DirtyFiles(s, records) ==
    SelectSeq(records, LAMBDA file : file.filePath \in s.lastModified)

\* a call of saveAllChanges at its await; disturbed tells that another call
\* was awaiting when it started or that the store was used since, edited the
\* paths of the records edited since it started
NewSave(dirtyFiles, disturbed) ==
    [writes |-> [k \in DOMAIN dirtyFiles |->
                    [filePath |-> dirtyFiles[k].filePath, metadata |-> dirtyFiles[k],
                     pc |-> "sent"]],
     settled |-> FALSE, disturbed |-> disturbed, edited |-> {}]

Disturb(saves) == [c \in DOMAIN saves |-> [saves[c] EXCEPT !.disturbed = TRUE]]

EditDuring(saves, filePath) ==
    [c \in DOMAIN saves |->
        [saves[c] EXCEPT !.disturbed = TRUE,
                         !.edited = IF saves[c].settled THEN @ ELSE @ \cup {filePath}]]

\* the store set a field of the record at filePath
Touch(filePath) == [saved EXCEPT ![filePath].touched = TRUE]

\* lines 2540-2546: the store after Promise.all resolved (originalFiles,
\* which only the revert of a record reads, is left out of the store)
SavedStore(s) ==
    [s EXCEPT !.isSaving = FALSE, !.isDirty = FALSE, !.lastModified = {}]

\* lines 2547-2552: the store after Promise.all rejected
FailedStore(s) ==
    [s EXCEPT !.isSaving = FALSE, !.error = "Failed to save changes"]

\* the calls of saveAllChanges that still await, or still have an invocation
\* the main process has not run
Awaiting(saves) ==
    SelectSeq(saves, LAMBDA save :
        ~save.settled \/ \E k \in DOMAIN save.writes : save.writes[k].pc = "sent")

StoreOp(op, filePath) ==
    lastOp' = [BaseOp EXCEPT !.op = op]

\* two files dropped on the window, read, and set in the store
InitStore ==
    /\ TwoFiles(<<<<"a">>, NameStrict>>, BytesIXML, <<<<"b">>, NamePlain>>, BytesBare)
    /\ dirs = {<<>>, <<<<"a">>>>, <<<<"b">>>>}
    /\ mirror = IdleMirror
    /\ runs = <<>>
    /\ used = [edits |-> 0, faults |-> 0, saves |-> 0]
    /\ calls = <<>>
    /\ store = IdleStore
    /\ saved = [q \in DOMAIN fs |-> [record |-> files[IndexOfFile(q)], touched |-> FALSE]]
    /\ lastOp = BaseOp

\* handleCellEdit: updateFileMetadata(filePath, field, value); the cell is a
\* controlled input, whose onChange fires when its text changed
EditCell(i, field, value) ==
    /\ used.edits < MaxStoreEdits
    /\ files[i][field] # Str(value)
    /\ files' = SetField(files, files[i].filePath, field, Str(value))
    /\ store' = EditedStore(store, files[i], field, value)
    /\ used' = [used EXCEPT !.edits = @ + 1]
    /\ calls' = EditDuring(calls, files[i].filePath)
    /\ saved' = Touch(files[i].filePath)
    /\ StoreOp("edit", files[i].filePath)
    /\ UNCHANGED <<fs, dirs, mirror, runs>>

\* undo, lines 2560-2588
Undo ==
    /\ store.historyIndex >= 0
    /\ files' = SetField(files, store.history[store.historyIndex + 1].filePath,
                         store.history[store.historyIndex + 1].field,
                         store.history[store.historyIndex + 1].oldValue)
    /\ store' = [store EXCEPT !.historyIndex = @ - 1, !.isDirty = TRUE]
    /\ calls' = Disturb(calls)
    /\ saved' = Touch(store.history[store.historyIndex + 1].filePath)
    /\ StoreOp("undo", store.history[store.historyIndex + 1].filePath)
    /\ UNCHANGED <<fs, dirs, mirror, runs, used>>

\* redo, lines 2590-2616
Redo ==
    /\ store.historyIndex < Len(store.history) - 1
    /\ files' = SetField(files, store.history[store.historyIndex + 2].filePath,
                         store.history[store.historyIndex + 2].field,
                         store.history[store.historyIndex + 2].newValue)
    /\ store' = [store EXCEPT !.historyIndex = @ + 1, !.isDirty = TRUE]
    /\ calls' = Disturb(calls)
    /\ saved' = Touch(store.history[store.historyIndex + 2].filePath)
    /\ StoreOp("redo", store.history[store.historyIndex + 2].filePath)
    /\ UNCHANGED <<fs, dirs, mirror, runs, used>>

\* saveAllChanges up to its await, lines 2526-2539; with no record to write
\* Promise.all is resolved already and the call runs to its end
SaveStarted(dirtyFiles) ==
    /\ Len(dirtyFiles) > 0 => used.saves < MaxSaves
    /\ used' = IF Len(dirtyFiles) = 0 THEN used ELSE [used EXCEPT !.saves = @ + 1]
    /\ calls' = IF Len(dirtyFiles) = 0 THEN Disturb(calls)
                ELSE Append(Disturb(calls), NewSave(dirtyFiles, Len(calls) > 0))
    /\ store' = IF Len(dirtyFiles) = 0
                THEN SavedStore(store)
                ELSE [store EXCEPT !.isSaving = TRUE, !.error = "null"]

SaveAllChanges ==
    /\ IF store.isDirty
       THEN SaveStarted(DirtyFiles(store, files))
       ELSE UNCHANGED <<calls, store, used>>
    /\ lastOp' = [BaseOp EXCEPT !.op = "save",
                                !.before = [isDirty |-> store.isDirty,
                                            awaiting |-> Len(calls)]]
    /\ UNCHANGED <<fs, dirs, files, mirror, runs, saved>>

\* the first invocation the main process has not run yet
IsNextSent(c, k) ==
    /\ calls[c].writes[k].pc = "sent"
    /\ \A d \in DOMAIN calls : \A j \in DOMAIN calls[d].writes :
           calls[d].writes[j].pc = "sent" => d > c \/ (d = c /\ j >= k)

WroteMetadata(c, k, fault, r) ==
    /\ fs' = r.fs
    /\ calls' = Awaiting([calls EXCEPT ![c].writes[k].pc =
                                           IF r.threw THEN "failed" ELSE "done"])
    /\ saved' = IF r.threw THEN saved
                ELSE [saved EXCEPT ![calls[c].writes[k].filePath] =
                         [record |-> calls[c].writes[k].metadata,
                          touched |-> calls[c].writes[k].metadata #
                                          files[IndexOfFile(calls[c].writes[k].filePath)]]]
    /\ lastOp' = [BaseOp EXCEPT !.op = "write", !.threw = r.threw]

\* the main process runs writeMetadata for invocation k of call c
HandleWriteMetadata(c, k, fault) ==
    /\ IsNextSent(c, k)
    /\ MayFault(fault)
    /\ WroteMetadata(c, k, fault,
                     writeMetadata(fs, calls[c].writes[k].filePath,
                                   calls[c].writes[k].metadata, fault))
    /\ used' = Spend(fault)
    /\ UNCHANGED <<dirs, files, mirror, runs, store>>

\* Promise.all resolves when every invocation has returned: lines 2540-2546
SaveResolved(c) ==
    /\ ~calls[c].settled
    /\ \A k \in DOMAIN calls[c].writes : calls[c].writes[k].pc = "done"
    /\ store' = SavedStore(store)
    /\ calls' = Awaiting([calls EXCEPT ![c].settled = TRUE])
    /\ lastOp' = [BaseOp EXCEPT !.op = "saved",
                                !.before = [quiet |-> ~calls[c].disturbed,
                                            edited |-> calls[c].edited]]
    /\ UNCHANGED <<fs, dirs, files, mirror, runs, used, saved>>

\* Promise.all rejects with the first invocation that threw: lines 2547-2552
SaveRejected(c) ==
    /\ ~calls[c].settled
    /\ \E k \in DOMAIN calls[c].writes : calls[c].writes[k].pc = "failed"
    /\ store' = FailedStore(store)
    /\ calls' = Awaiting([calls EXCEPT ![c].settled = TRUE])
    /\ StoreOp("saveFailed", <<>>)
    /\ UNCHANGED <<fs, dirs, files, mirror, runs, used, saved>>

NextStore ==
    \/ \E i \in DOMAIN files, field \in StoreFields, value \in StoreTexts :
           EditCell(i, field, value)
    \/ Undo
    \/ Redo
    \/ SaveAllChanges
    \/ \E c \in DOMAIN calls, fault \in StoreFaults :
           \E k \in DOMAIN calls[c].writes : HandleWriteMetadata(c, k, fault)
    \/ \E c \in DOMAIN calls : SaveResolved(c)
    \/ \E c \in DOMAIN calls : SaveRejected(c)

SpecStore == InitStore /\ [][NextStore]_vars

(* ---------------------------------------------------------------------- *)
(* C25: saveAllChanges saves exactly the changed records                  *)
(* ---------------------------------------------------------------------- *)

\* the record at index i differs from what was last read from or written
\* back to its path
Changed(i) == files[i] # saved[files[i].filePath].record

ChangedPaths == {files[i].filePath : i \in {j \in DOMAIN files : Changed(j)}}

\* saveAllChanges was just called on a dirty store while no earlier call
\* was awaiting
LastSaveAlone ==
    lastOp.op = "save" /\ lastOp.before.isDirty /\ lastOp.before.awaiting = 0

\* the records the store set a field of since they were read or written back
TouchedPaths == {q \in DOMAIN saved : saved[q].touched}

\* the paths the call just made sent a write-back for
IssuedPaths ==
    IF Len(calls) = 0 THEN {}
    ELSE {calls[Len(calls)].writes[k].filePath : k \in DOMAIN calls[Len(calls)].writes}

\* C25: a saveAllChanges call issues a write-back for exactly the records
\* whose values changed since the last successful save (by an edit, an undo
\* or a redo) and for no unchanged record, and when it completes
\* successfully, nothing else having happened meanwhile, no record holds an
\* unwritten change.
C25_SavesExactlyChanged ==
    /\ LastSaveAlone => ChangedPaths \subseteq IssuedPaths
    /\ LastSaveAlone /\ used.faults = 0 => IssuedPaths \subseteq TouchedPaths
    /\ LastSaveAlone /\ Len(calls) = 0 => ChangedPaths = {}
    /\ lastOp.op = "saved" /\ lastOp.before.quiet => ChangedPaths = {}

(* ---------------------------------------------------------------------- *)
(* C29: an edit made while saveAllChanges awaits                          *)
(* ---------------------------------------------------------------------- *)

\* the record at filePath is marked unsaved
MarkedUnsaved(filePath) == store.isDirty /\ filePath \in store.lastModified

\* C29: when a saveAllChanges call completes, every record edited while it
\* was awaiting its write-backs is on disk with the value it has in the
\* store, or is still marked unsaved (isDirty true and its lastModified set).
C29_EditDuringSaveKept ==
    lastOp.op = "saved" =>
        \A filePath \in lastOp.before.edited :
            \/ ~Changed(IndexOfFile(filePath))
            \/ MarkedUnsaved(filePath)

(* ---------------------------------------------------------------------- *)
(* C30: write-backs in flight for one path                                *)
(* ---------------------------------------------------------------------- *)

\* the invocations of writeMetadata sent and not yet run: <<call, index>>
InFlight ==
    {ck \in (DOMAIN calls) \X (DOMAIN files) :
        ck[2] \in DOMAIN calls[ck[1]].writes /\ calls[ck[1]].writes[ck[2]].pc = "sent"}

\* C30: no two write-backs for one file path are in flight at the same time.
C30_OneWriteInFlight ==
    \A one \in InFlight, other \in InFlight :
        calls[one[1]].writes[one[2]].filePath = calls[other[1]].writes[other[2]].filePath
            => one = other

(* ---------------------------------------------------------------------- *)
(* C26: the accounting of mirrorFiles                                     *)
(* ---------------------------------------------------------------------- *)

\* how many records the result accounts for
Accounted(result) == result.copiedFiles + Len(result.conflicts) + Len(result.errors)

\* the last turn of the loop listed its record as a conflict
LastConflict ==
    /\ lastOp.op = "mirror"
    /\ Len(lastOp.result.conflicts) = Len(lastOp.before.conflicts) + 1
    /\ lastOp.result.conflicts[Len(lastOp.result.conflicts)].sourcePath = lastOp.path

\* the last turn of the loop listed its record as an error
LastError ==
    /\ lastOp.op = "mirror"
    /\ lastOp.result.errors = Append(lastOp.before.errors, [filePath |-> lastOp.path])

\* C26: when the destination root could be created, every selected record
\* ends in exactly one of three outcomes (counted in copiedFiles, listed in
\* conflicts, listed in errors): each turn of the loop adds one to exactly
\* one of the three, a finished call accounts for as many records as were
\* selected, and a record is counted in copiedFiles only when its copy and
\* its write-back both succeeded.
C26_Accounting ==
    /\ lastOp.op = "mirror" =>
           /\ Accounted(lastOp.result) = Accounted(lastOp.before) + 1
           /\ LastCopied \/ LastConflict \/ LastError
           /\ LastCopied =>
                  /\ ~lastOp.threw
                  /\ lastOp.path \in DOMAIN lastOp.fs
                  /\ lastOp.destination \notin DOMAIN lastOp.fs
                  /\ ~writeMetadata(CopyFile(lastOp.fs, lastOp.path, lastOp.destination),
                                    lastOp.destination, lastOp.record, "none").threw
                  /\ fs[lastOp.destination] =
                         FileAfterWrite(CopyFile(lastOp.fs, lastOp.path, lastOp.destination),
                                        lastOp.destination, lastOp.record)
    /\ mirror.pc = "loop" => Accounted(mirror.result) = Len(mirror.processed)
    /\ \A k \in DOMAIN runs :
           runs[k].rootOk => Accounted(runs[k].result) = Len(runs[k].selected)

\* a finished call on two records that share a destination: one was copied,
\* the other listed as a conflict
C26_Witness ==
    \E k \in DOMAIN runs :
        /\ runs[k].rootOk
        /\ Len(runs[k].selected) = 2
        /\ runs[k].result.copiedFiles = 1
        /\ Len(runs[k].result.conflicts) = 1
        /\ runs[k].result.errors = <<>>

(* ---------------------------------------------------------------------- *)
(* C28: a write-back that fails after the copy                            *)
(* ---------------------------------------------------------------------- *)

\* the fault of a turn as writeMetadata sees it
WriteFaultOf(fault) == IF fault \in WriteFaults THEN fault ELSE "none"

\* the last turn of the loop copied the bytes of its record (the destination
\* was free, its directory was made, copyFile returned) and writeMetadata on
\* the copy threw
WriteBackFailed ==
    /\ lastOp.op = "mirror"
    /\ lastOp.built
    /\ ~fileExists(lastOp.fs, lastOp.dirs, lastOp.destination)
    /\ ~ensureDirectoryExists(lastOp.fs, lastOp.dirs, DirName(lastOp.destination),
                              lastOp.fault).threw
    /\ lastOp.fault # "copy"
    /\ lastOp.path \in DOMAIN lastOp.fs
    /\ writeMetadata(CopyFile(lastOp.fs, lastOp.path, lastOp.destination),
                     lastOp.destination, lastOp.record, WriteFaultOf(lastOp.fault)).threw

\* the record of the last turn is listed in the errors of an earlier call
\* with the configuration of this one
FailedBefore ==
    \E k \in DOMAIN runs :
        /\ runs[k].config = mirror.config
        /\ \E e \in DOMAIN runs[k].result.errors :
               runs[k].result.errors[e].filePath = lastOp.path

\* C28: when the write-back at the destination fails after the copy, the
\* record is listed in errors and not counted, and the copy stays at the
\* destination with the bytes of the source file; a later call with the same
\* configuration that finds this copy lists the record as a conflict and
\* copies and writes nothing.
C28_FailedWriteBackLeavesCopy ==
    /\ WriteBackFailed =>
           /\ lastOp.threw
           /\ LastError
           /\ lastOp.result.copiedFiles = lastOp.before.copiedFiles
           /\ lastOp.result.conflicts = lastOp.before.conflicts
           /\ lastOp.destination \in DOMAIN fs
           /\ fs[lastOp.destination] = lastOp.fs[lastOp.path]
           /\ fs[lastOp.path] = lastOp.fs[lastOp.path]
    /\ lastOp.op = "mirror" /\ FailedBefore /\ lastOp.built
           /\ lastOp.destination \in DOMAIN lastOp.fs =>
           /\ LastConflict
           /\ fs = lastOp.fs
           /\ lastOp.result.copiedFiles = lastOp.before.copiedFiles
           /\ lastOp.result.errors = lastOp.before.errors

\* a second call with the configuration of the first meets the copy whose
\* write-back failed in the first call: the copy still holds the source's
\* bytes, not the record's values
C28_Witness ==
    /\ lastOp.op = "mirror"
    /\ FailedBefore
    /\ LastConflict
    /\ runs[1].faulted
    /\ runs[1].result.copiedFiles < Len(runs[1].selected)
    /\ fs[lastOp.destination] = fs[lastOp.path]
    /\ lastOp.record.show = Str(<<"X">>)
    /\ IXMLText(fs[lastOp.destination], "PROJECT") # <<"X">>

(* ---------------------------------------------------------------------- *)
(* C27: destinations stay inside the destination root                     *)
(* ---------------------------------------------------------------------- *)

\* path is strictly below the directory root
Inside(path, root) ==
    /\ Len(path) > Len(root)
    /\ SubSeq(path, 1, Len(root)) = root

\* C27: every destination path buildDestinationPath computes, whatever the
\* record's field values and file name, lies inside the destination root.
C27_InsideRoot ==
    lastOp.op = "path" /\ lastOp.built =>
        Inside(lastOp.destination, mirror.config.destinationPath)

====
